---- MODULE Spec2Model ----
(***************************************************************************)
(* Risk scoring engine of smart-news-orchestrator: RiskScorer              *)
(* (src/tools/risk_scorer.py).                                             *)
(*                                                                         *)
(* A Python str is a sequence of one-character strings, so that lower(),   *)
(* `in`, strip(), slicing and concatenation are modelled by what they do.  *)
(* A Python float is an exact rational <<num, den>> with den > 0; a value  *)
(* that went through round(x, 2) is an integer number of hundredths.       *)
(* A dict is a function whose DOMAIN is its set of keys; a dict whose      *)
(* iteration order matters is a sequence of <<key, value>> pairs.          *)
(***************************************************************************)
EXTENDS Integers, Sequences, FiniteSets, TLC

VARIABLES scorer, hashOrder, phase, article, result, seen, calc,
          agent, files, returned, page

vars == <<scorer, hashOrder, phase, article, result, seen, calc,
          agent, files, returned, page>>

(***************************************************************************)
(* str helpers                                                             *)
(***************************************************************************)
UPPER == <<"A","B","C","D","E","F","G","H","I","J","K","L","M",
           "N","O","P","Q","R","S","T","U","V","W","X","Y","Z">>

LOWER == <<"a","b","c","d","e","f","g","h","i","j","k","l","m",
           "n","o","p","q","r","s","t","u","v","w","x","y","z">>

UpperSet == {UPPER[i] : i \in DOMAIN UPPER}

LowerChar(c) ==
    IF c \in UpperSet THEN LOWER[CHOOSE i \in DOMAIN UPPER : UPPER[i] = c] ELSE c

\* str.lower()
lower(s) == [i \in 1..Len(s) |-> LowerChar(s[i])]

\* w in t  (substring containment)
In(w, t) ==
    \E i \in 0..(Len(t) - Len(w)) : \A j \in 1..Len(w) : t[i + j] = w[j]

MinOf(S) == CHOOSE x \in S : \A y \in S : x <= y

MaxOf(S) == CHOOSE x \in S : \A y \in S : x >= y

IsSpace(c) == c \in {" ", "\t", "\n"}

\* str.strip()
strip(s) ==
    LET keep == {i \in 1..Len(s) : ~IsSpace(s[i])}
    IN  IF keep = {} THEN <<>> ELSE SubSeq(s, MinOf(keep), MaxOf(keep))

\* s[:n]
Slice(s, n) == IF Len(s) <= n THEN s ELSE SubSeq(s, 1, n)

\* s.endswith(t)
EndsWith(s, t) ==
    /\ Len(t) <= Len(s)
    /\ SubSeq(s, Len(s) - Len(t) + 1, Len(s)) = t

RECURSIVE Join(_, _)
\* sep.join(parts)
Join(sep, parts) ==
    IF parts = <<>> THEN <<>>
    ELSE IF Len(parts) = 1 THEN parts[1]
    ELSE parts[1] \o sep \o Join(sep, Tail(parts))

\* x in list
InList(x, list) == \E i \in 1..Len(list) : list[i] = x

\* [k.lower() for k in list]
LowerAll(list) == [i \in 1..Len(list) |-> lower(list[i])]

\* The elements of a set of integers in increasing order.
SortedSeq(S) ==
    [i \in 1..Cardinality(S) |->
        CHOOSE x \in S : Cardinality({y \in S : y < x}) = i - 1]

(***************************************************************************)
(* String literals of the source                                           *)
(***************************************************************************)
STR_EMPTY == <<>>

STR_SPACE == <<" ">>

STR_COMMA_SPACE == <<","," ">>

STR_DOT == <<".">>

STR_DOT_SPACE == <<"."," ">>

STR_AND == <<" ","a","n","d"," ">>

STR_positive == <<"p","o","s","i","t","i","v","e">>

STR_neutral == <<"n","e","u","t","r","a","l">>

STR_negative == <<"n","e","g","a","t","i","v","e">>

STR_sensitive == <<"s","e","n","s","i","t","i","v","e">>

STR_regulatory == <<"r","e","g","u","l","a","t","o","r","y">>

STR_operational == <<"o","p","e","r","a","t","i","o","n","a","l">>

STR_competitive == <<"c","o","m","p","e","t","i","t","i","v","e">>

STR_financial == <<"f","i","n","a","n","c","i","a","l">>

STR_Access_Denied == <<"A","c","c","e","s","s"," ","D","e","n","i","e","d">>

STR_access_denied == <<"a","c","c","e","s","s"," ","d","e","n","i","e","d">>

STR_competitor_prefix == <<"c","o","m","p","e","t","i","t","o","r",":"," ">>

STR_tone_is == <<"T","h","e"," ","t","o","n","e"," ","i","s"," ">>

STR_involves == <<"i","n","v","o","l","v","e","s"," ">>

STR_concerns == <<" ","c","o","n","c","e","r","n","s">>

STR_with_keywords == <<"w","i","t","h"," ","k","e","y","w","o","r","d","s",":"," ">>

STR_skip_summary == <<"S","k","i","p","p","e","d",":"," ","A","c","c","e","s","s"," ","d","e","n","i","e","d"," ","e","r","r","o","r"," ","p","a","g","e"," ","(","n","o","t"," ","r","e","a","l"," ","c","o","n","t","e","n","t",")">>

STR_skip_reasoning == <<"A","r","t","i","c","l","e"," ","s","k","i","p","p","e","d"," ","-"," ","s","c","r","a","p","e","r"," ","e","n","c","o","u","n","t","e","r","e","d"," ","a","c","c","e","s","s"," ","d","e","n","i","a","l">>

STR_no_content == <<"N","o"," ","c","o","n","t","e","n","t"," ","a","v","a","i","l","a","b","l","e"," ","f","o","r"," ","a","n","a","l","y","s","i","s",".">>

(***************************************************************************)
(* The polarity lexicon of _calculate_sentiment                            *)
(***************************************************************************)
negative_words ==
    << <<"l","o","s","s">>, <<"f","a","i","l">>, <<"d","e","c","l","i","n","e">>,
       <<"d","r","o","p">>, <<"p","l","u","n","g","e">>, <<"c","r","a","s","h">>,
       <<"d","o","w","n">>, <<"f","e","l","l">>, <<"s","l","u","m","p">>,
       <<"w","e","a","k">>, <<"p","o","o","r">>, <<"m","i","s","s">>,
       <<"d","e","l","a","y">>, <<"s","h","o","r","t","a","g","e">>, <<"r","i","s","k">>,
       <<"t","h","r","e","a","t">>, <<"c","o","n","c","e","r","n">>, <<"w","o","r","r","y">>,
       <<"p","r","o","b","l","e","m">>, <<"i","s","s","u","e">>, <<"l","a","w","s","u","i","t">>,
       <<"s","u","e">>, <<"f","i","n","e">>, <<"p","e","n","a","l","t","y">>,
       <<"b","a","n">>, <<"v","i","o","l","a","t","i","o","n">>, <<"b","r","e","a","c","h">>,
       <<"h","a","c","k">>, <<"a","t","t","a","c","k">>, <<"s","t","r","i","k","e">>,
       <<"l","a","y","o","f","f">>, <<"c","u","t">> >>

positive_words ==
    << <<"g","a","i","n">>, <<"r","i","s","e">>, <<"g","r","o","w","t","h">>,
       <<"i","n","c","r","e","a","s","e">>, <<"s","u","r","g","e">>, <<"j","u","m","p">>,
       <<"u","p">>, <<"b","e","a","t">>, <<"s","t","r","o","n","g">>,
       <<"r","o","b","u","s","t">>, <<"e","x","c","e","l","l","e","n","t">>, <<"s","u","c","c","e","s","s">>,
       <<"w","i","n">>, <<"p","r","o","f","i","t">>, <<"r","e","v","e","n","u","e">>,
       <<"e","x","p","a","n","s","i","o","n">>, <<"l","a","u","n","c","h">>, <<"i","n","n","o","v","a","t","i","o","n">>,
       <<"p","a","r","t","n","e","r","s","h","i","p">>, <<"d","e","a","l">>, <<"a","g","r","e","e","m","e","n","t">>,
       <<"b","o","o","s","t">>, <<"i","m","p","r","o","v","e">> >>

neutral_words ==
    << <<"s","t","a","b","l","e">>, <<"m","a","i","n","t","a","i","n">>, <<"h","o","l","d">>,
       <<"s","t","e","a","d","y">>, <<"c","o","n","t","i","n","u","e">>, <<"r","e","m","a","i","n">> >>

(***************************************************************************)
(* Program constants                                                       *)
(***************************************************************************)
AccessDeniedPrefix == 100

MinSentenceLen == 20

max_sentences == 4

SummaryLimit == 500

ReasoningLimit == 250

TopKeywords == 3

MatchedKeywordsCap == 10

(***************************************************************************)
(* dict helpers                                                            *)
(***************************************************************************)
\* d.get(key, default)
Get(d, key, default) == IF key \in DOMAIN d THEN d[key] ELSE default

\* d[k] = v on an insertion-ordered dict held as a sequence of pairs.
DictPut(d, k, v) ==
    IF \E i \in 1..Len(d) : d[i][1] = k
    THEN [i \in 1..Len(d) |-> IF d[i][1] = k THEN <<k, v>> ELSE d[i]]
    ELSE Append(d, <<k, v>>)

RECURSIVE DictPutAll(_, _)
DictPutAll(d, pairs) ==
    IF pairs = <<>> THEN d
    ELSE DictPutAll(DictPut(d, pairs[1][1], pairs[1][2]), Tail(pairs))

RECURSIVE Concat(_)
\* The concatenation of a sequence of sequences.
Concat(ss) == IF ss = <<>> THEN <<>> ELSE ss[1] \o Concat(Tail(ss))

(***************************************************************************)
(* RiskScorer.__init__ and _build_keyword_indices                          *)
(***************************************************************************)
\* all_risk_keywords: keyword.lower() -> category, the last write winning.
build_all_risk_keywords(risk_keywords) ==
    DictPutAll(<<>>,
        Concat([c \in 1..Len(risk_keywords) |->
            [k \in 1..Len(risk_keywords[c][2]) |->
                <<lower(risk_keywords[c][2][k]), risk_keywords[c][1]>>]]))

build_all_product_keywords(product_keywords) ==
    Concat([c \in 1..Len(product_keywords) |-> LowerAll(product_keywords[c][2])])

build_competitor_names(competitors) ==
    [i \in 1..Len(competitors) |-> lower(competitors[i].name)]

build_sensitive_keywords(sensitive_topics) == LowerAll(sensitive_topics)

\* RiskScorer(company_knowledge)
RiskScorer(company_knowledge) ==
    LET rk == Get(company_knowledge, "risk_keywords", <<>>)
        cs == Get(company_knowledge, "competitors", <<>>)
        pk == Get(company_knowledge, "product_keywords", <<>>)
        st == Get(company_knowledge, "sensitive_topics", <<>>)
    IN  [ risk_keywords        |-> rk,
          competitors          |-> cs,
          product_keywords     |-> pk,
          sensitive_topics     |-> st,
          all_risk_keywords    |-> build_all_risk_keywords(rk),
          all_product_keywords |-> build_all_product_keywords(pk),
          competitor_names     |-> build_competitor_names(cs),
          sensitive_keywords   |-> build_sensitive_keywords(st) ]

(***************************************************************************)
(* _calculate_sentiment                                                    *)
(***************************************************************************)
\* sum(1 for word in words if word in text_lower)
CountIn(words, text_lower) ==
    Cardinality({i \in 1..Len(words) : In(words[i], text_lower)})

\* Mutant: the neutral words are left out of the denominator.
sentiment_of_counts_no_neutral(neg_count, pos_count, neutral_count) ==
    LET total_count == neg_count + pos_count
        num == pos_count - neg_count
        label == IF 5 * num < -total_count THEN STR_negative
                 ELSE IF 5 * num > total_count THEN STR_positive
                 ELSE STR_neutral
    IN  IF neg_count + pos_count + neutral_count = 0 \/ total_count = 0
        THEN [label |-> STR_neutral, score |-> <<0, 1>>]
        ELSE [label |-> label, score |-> <<num, total_count>>]

\* Lines 92-111: label and score from the three counts.
sentiment_of_counts(neg_count, pos_count, neutral_count) ==
    LET total_count == neg_count + pos_count + neutral_count
        num == pos_count - neg_count
        label == IF 5 * num < -total_count THEN STR_negative
                 ELSE IF 5 * num > total_count THEN STR_positive
                 ELSE STR_neutral
        normalized == IF num < -total_count THEN -total_count
                      ELSE IF num > total_count THEN total_count
                      ELSE num
    IN  IF total_count = 0
        THEN [label |-> STR_neutral, score |-> <<0, 1>>]
        ELSE [label |-> label, score |-> <<normalized, total_count>>]

calculate_sentiment(text) ==
    LET text_lower == lower(text)
    IN  sentiment_of_counts(CountIn(negative_words, text_lower),
                            CountIn(positive_words, text_lower),
                            CountIn(neutral_words, text_lower))

(***************************************************************************)
(* _match_keywords                                                         *)
(***************************************************************************)
\* list(categories): a set of str iterates in an order fixed by the
\* process's string hashing, here the order of the names in `order`.
ListOfSet(order, S) == SelectSeq(order, LAMBDA c : c \in S)

match_keywords(self, order, text) ==
    LET text_lower == lower(text)
        riskHits == SelectSeq(self.all_risk_keywords,
                              LAMBDA p : In(p[1], text_lower))
        sensHits == SelectSeq(self.sensitive_keywords,
                              LAMBDA k : In(k, text_lower))
        prodHits == SelectSeq(self.all_product_keywords,
                              LAMBDA k : In(k, text_lower))
        categories == {riskHits[i][2] : i \in 1..Len(riskHits)}
                      \cup (IF sensHits # <<>> THEN {STR_sensitive} ELSE {})
    IN  [ matched    |-> [i \in 1..Len(riskHits) |-> riskHits[i][1]]
                         \o sensHits \o prodHits,
          categories |-> ListOfSet(order, categories) ]

(***************************************************************************)
(* _calculate_risk_score                                                   *)
(***************************************************************************)
Abs(x) == IF x < 0 THEN -x ELSE x

Min2(a, b) == IF a <= b THEN a ELSE b

Max2(a, b) == IF a >= b THEN a ELSE b

\* Mutant: the final clamp to [0, 1] is missing.
calculate_risk_score_unclamped(sentiment_score, matched_keywords, risk_categories) ==
    LET n == sentiment_score[1]
        d == sentiment_score[2]
        base_score == IF n < 0 THEN 6 * Abs(n)
                      ELSE IF n > 0 THEN Abs(n)
                      ELSE 2 * d
    IN  <<base_score + Min2(4 * d, Len(matched_keywords) * d)
            + Len(risk_categories) * d, 10 * d>>

\* Mutant: +0.1 for each matched keyword, without the cap at 0.4.
calculate_risk_score_uncapped(sentiment_score, matched_keywords, risk_categories) ==
    LET n == sentiment_score[1]
        d == sentiment_score[2]
        base_score == IF n < 0 THEN 6 * Abs(n)
                      ELSE IF n > 0 THEN Abs(n)
                      ELSE 2 * d
        risk_score == base_score + Len(matched_keywords) * d
                      + Len(risk_categories) * d
    IN  <<Max2(0, Min2(10 * d, risk_score)), 10 * d>>

\* Mutant: max(0.4, ...) written for min(0.4, ...).
calculate_risk_score_max(sentiment_score, matched_keywords, risk_categories) ==
    LET n == sentiment_score[1]
        d == sentiment_score[2]
        base_score == IF n < 0 THEN 6 * Abs(n)
                      ELSE IF n > 0 THEN Abs(n)
                      ELSE 2 * d
        risk_score == base_score + Max2(4 * d, Len(matched_keywords) * d)
                      + Len(risk_categories) * d
    IN  <<Max2(0, Min2(10 * d, risk_score)), 10 * d>>

\* Mutant: positive sentiment weighs 0.6 like negative sentiment.
calculate_risk_score_same_base(sentiment_score, matched_keywords, risk_categories) ==
    LET n == sentiment_score[1]
        d == sentiment_score[2]
        base_score == IF n = 0 THEN 2 * d ELSE 6 * Abs(n)
        risk_score == base_score + Min2(4 * d, Len(matched_keywords) * d)
                      + Len(risk_categories) * d
    IN  <<Max2(0, Min2(10 * d, risk_score)), 10 * d>>

\* The result is the rational over the denominator 10 * den(sentiment).
calculate_risk_score(sentiment_score, matched_keywords, risk_categories) ==
    LET n == sentiment_score[1]
        d == sentiment_score[2]
        base_score == IF n < 0 THEN 6 * Abs(n)
                      ELSE IF n > 0 THEN Abs(n)
                      ELSE 2 * d
        keyword_penalty == Min2(4 * d, Len(matched_keywords) * d)
        category_penalty == Len(risk_categories) * d
        risk_score == base_score + keyword_penalty + category_penalty
    IN  <<Max2(0, Min2(10 * d, risk_score)), 10 * d>>

\* round(x, 2), in hundredths: the nearest hundredth, an exact tie going to
\* the even one.
Round2(x) ==
    LET q == 100 * x[1]
        fl == q \div x[2]
        r == q % x[2]
    IN  IF 2 * r < x[2] THEN fl
        ELSE IF 2 * r > x[2] THEN fl + 1
        ELSE IF fl % 2 = 0 THEN fl ELSE fl + 1

(***************************************************************************)
(* _generate_summary and _generate_reasoning                               *)
(***************************************************************************)
SentenceEnd == {".", "!", "?"}

\* re.split(r'[.!?]+', text), each piece stripped.  The empty pieces a
\* single-character split leaves between adjacent terminators are the ones
\* the length filter drops.
SplitSentences(text) ==
    LET ends == {i \in 1..Len(text) : text[i] \in SentenceEnd}
        cuts == SortedSeq({0} \cup ends \cup {Len(text) + 1})
    IN  [i \in 1..(Len(cuts) - 1) |->
            strip(SubSeq(text, cuts[i] + 1, cuts[i + 1] - 1))]

generate_summary(text) ==
    LET sentences == SelectSeq(SplitSentences(text),
                               LAMBDA s : Len(s) > MinSentenceLen)
        summary_sentences == Slice(sentences, max_sentences)
        joined == Join(STR_DOT_SPACE, summary_sentences)
        summary == IF joined # <<>> /\ ~EndsWith(joined, STR_DOT)
                   THEN joined \o STR_DOT ELSE joined
    IN  Slice(summary, SummaryLimit)

generate_reasoning(sentiment_label, risk_categories, matched_keywords) ==
    LET tone == <<STR_tone_is \o sentiment_label>>
        cats == IF risk_categories # <<>>
                THEN <<STR_involves \o Join(STR_COMMA_SPACE, risk_categories)
                       \o STR_concerns>>
                ELSE <<>>
        kws == IF matched_keywords # <<>>
               THEN <<STR_with_keywords
                      \o Join(STR_COMMA_SPACE, Slice(matched_keywords, TopKeywords))>>
               ELSE <<>>
        reasoning == Join(STR_AND, tone \o cats \o kws) \o STR_DOT
    IN  Slice(reasoning, ReasoningLimit)

(***************************************************************************)
(* analyze_article                                                         *)
(***************************************************************************)
\* Python truthiness of a str or a list.
Truthy(v) == v # <<>>

\* article.get('content_text') or article.get('article_text', '')
ArticleText(art) ==
    IF "content_text" \in DOMAIN art /\ Truthy(art["content_text"])
    THEN art["content_text"]
    ELSE Get(art, "article_text", STR_EMPTY)

Title(art) == Get(art, "title", STR_EMPTY)

\* f"{title} {article_text}"
FullText(art) == Title(art) \o STR_SPACE \o ArticleText(art)

\* Mutant: the title is compared without regard to case, like the body.
IsAccessDenied_anycase(art) ==
    \/ In(STR_access_denied, lower(Title(art)))
    \/ In(STR_access_denied, Slice(lower(ArticleText(art)), AccessDeniedPrefix))

\* Line 281.
IsAccessDenied(art) ==
    \/ In(STR_Access_Denied, Title(art))
    \/ In(STR_access_denied, Slice(lower(ArticleText(art)), AccessDeniedPrefix))

\* Mutant: full_text is tested without strip(); it always holds the space.
IsEmpty_nostrip(art) == FullText(art) = <<>>

\* Line 293.
IsEmpty(art) == strip(FullText(art)) = <<>>

\* Lines 282-291.
SkippedResult ==
    [ summary          |-> STR_skip_summary,
      sentiment_label  |-> STR_neutral,
      sentiment_score  |-> 0,
      risk_category    |-> <<>>,
      risk_score       |-> 0,
      matched_keywords |-> <<>>,
      reasoning        |-> STR_skip_reasoning,
      skipped          |-> TRUE ]

\* Lines 295-303.
EmptyResult ==
    [ summary          |-> STR_no_content,
      sentiment_label  |-> STR_neutral,
      sentiment_score  |-> 0,
      risk_category    |-> <<>>,
      risk_score       |-> 0,
      matched_keywords |-> <<>>,
      reasoning        |-> STR_no_content ]

\* Mutant: the hint is compared without lower().
FinalSentiment_case_sensitive(art) ==
    LET local == calculate_sentiment(FullText(art))
        scraper_sentiment == Get(art, "sentiment", STR_EMPTY)
    IN  IF scraper_sentiment \in {STR_positive, STR_neutral, STR_negative}
        THEN [ label |-> scraper_sentiment,
               score |-> IF scraper_sentiment = STR_positive THEN <<1, 2>>
                         ELSE IF scraper_sentiment = STR_negative THEN <<-1, 2>>
                         ELSE <<0, 1>> ]
        ELSE local

\* Lines 306-319: the lexicon pass, then the scraper's hint over it.
FinalSentiment(art) ==
    LET local == calculate_sentiment(FullText(art))
        scraper_sentiment == lower(Get(art, "sentiment", STR_EMPTY))
    IN  IF Truthy(Get(art, "sentiment", STR_EMPTY))
           /\ scraper_sentiment \in {STR_positive, STR_neutral, STR_negative}
        THEN [ label |-> scraper_sentiment,
               score |-> IF scraper_sentiment = STR_positive THEN <<1, 2>>
                         ELSE IF scraper_sentiment = STR_negative THEN <<-1, 2>>
                         ELSE <<0, 1>> ]
        ELSE local

RECURSIVE AddCategories(_, _, _)
\* Lines 332-335, for one lowercased scraper keyword.
AddCategories(risk_keywords, kw, risk_categories) ==
    IF risk_keywords = <<>> THEN risk_categories
    ELSE LET cat == risk_keywords[1][1]
             hit == InList(kw, LowerAll(risk_keywords[1][2]))
         IN  AddCategories(Tail(risk_keywords), kw,
                 IF hit /\ ~InList(cat, risk_categories)
                 THEN Append(risk_categories, cat) ELSE risk_categories)

RECURSIVE MergeRiskTags(_, _, _)
\* Lines 328-335; m holds matched and categories.
MergeRiskTags(self, scraper_keywords, m) ==
    IF scraper_keywords = <<>> THEN m
    ELSE LET kw == lower(scraper_keywords[1])
         IN  MergeRiskTags(self, Tail(scraper_keywords),
                 [ matched    |-> IF ~InList(kw, LowerAll(m.matched))
                                  THEN Append(m.matched, kw) ELSE m.matched,
                   categories |-> AddCategories(self.risk_keywords, kw,
                                                m.categories) ])

RECURSIVE MergeCompetitors(_, _)
\* Lines 339-341.
MergeCompetitors(competitor_mentions, matched) ==
    IF competitor_mentions = <<>> THEN matched
    ELSE LET competitor == competitor_mentions[1]
         IN  MergeCompetitors(Tail(competitor_mentions),
                 IF ~InList(lower(competitor), LowerAll(matched))
                 THEN Append(matched, STR_competitor_prefix \o competitor)
                 ELSE matched)

\* Lines 322-341: local matches, then the hints merged in.
MergedMatches(self, order, art) ==
    LET local == match_keywords(self, order, FullText(art))
        tagged == MergeRiskTags(self, Get(art, "risk_tags_detected", <<>>), local)
    IN  [ matched    |-> MergeCompetitors(Get(art, "competitor_mentions", <<>>),
                                          tagged.matched),
          categories |-> tagged.categories ]

\* Lines 371-379.
RiskAnalysis(self, order, art) ==
    LET sentiment == FinalSentiment(art)
        m == MergedMatches(self, order, art)
        risk_score == calculate_risk_score(sentiment.score, m.matched, m.categories)
        text == IF Truthy(ArticleText(art)) THEN ArticleText(art) ELSE Title(art)
    IN  [ summary          |-> generate_summary(text),
          sentiment_label  |-> sentiment.label,
          sentiment_score  |-> Round2(sentiment.score),
          risk_category    |-> m.categories,
          risk_score       |-> Round2(risk_score),
          matched_keywords |-> Slice(m.matched, MatchedKeywordsCap),
          reasoning        |-> generate_reasoning(sentiment.label, m.categories,
                                                  m.matched) ]

\* Mutant: the alias article_text is copied like every other field.
EnrichedResult_keep_alias(art, risk_analysis) ==
    [k \in DOMAIN art \cup {"risk_analysis"} |->
        IF k = "risk_analysis" THEN risk_analysis ELSE art[k]]

\* Lines 362-381: every input field but article_text, then risk_analysis.
EnrichedResult(art, risk_analysis) ==
    [k \in (DOMAIN art \ {"article_text"}) \cup {"risk_analysis"} |->
        IF k = "risk_analysis" THEN risk_analysis ELSE art[k]]

analyze_article(self, order, art) ==
    IF IsAccessDenied(art) THEN SkippedResult
    ELSE IF IsEmpty(art) THEN EmptyResult
    ELSE EnrichedResult(art, RiskAnalysis(self, order, art))

(***************************************************************************)
(* Inputs: knowledge bases and articles                                    *)
(***************************************************************************)
STR_Apple == <<"A","p","p","l","e">>

STR_Antitrust == <<"A","n","t","i","t","r","u","s","t">>

STR_lawsuit == <<"l","a","w","s","u","i","t">>

STR_fine == <<"f","i","n","e">>

STR_revenue == <<"r","e","v","e","n","u","e">>

STR_data_breach == <<"d","a","t","a"," ","b","r","e","a","c","h">>

STR_iPhone == <<"i","P","h","o","n","e">>

STR_Samsung == <<"S","a","m","s","u","n","g">>

STR_phones == <<"p","h","o","n","e","s">>

STR_Reuters == <<"R","e","u","t","e","r","s">>

STR_Lawsuit == <<"L","a","w","s","u","i","t">>

STR_recall == <<"r","e","c","a","l","l">>

STR_FINE == <<"F","I","N","E">>

STR_Positive == <<"P","o","s","i","t","i","v","e">>

STR_NEUTRAL == <<"N","E","U","T","R","A","L">>

STR_mixed == <<"m","i","x","e","d">>

TITLE_LAWSUIT == <<"A","p","p","l","e"," ","l","a","w","s","u","i","t">>

BODY_BLANK == <<" "," ">>

BODY_DENIED == <<"A","C","C","E","S","S"," ","D","E","N","I","E","D","."," ","Y","o","u"," ","c","a","n","n","o","t"," ","v","i","e","w"," ","t","h","i","s"," ","l","a","w","s","u","i","t"," ","p","a","g","e">>

BODY_NEG == <<"A","p","p","l","e"," ","f","a","c","e","s"," ","a","n","t","i","t","r","u","s","t"," ","l","a","w","s","u","i","t","."," ","E","U"," ","m","a","y"," ","f","i","n","e"," ","t","h","e"," ","f","i","r","m">>

BODY_POS == <<"R","e","v","e","n","u","e"," ","u","p"," ","o","n"," ","s","t","r","o","n","g"," ","i","P","h","o","n","e"," ","g","r","o","w","t","h">>

BODY_PLAIN == <<"A","p","p","l","e"," ","e","v","e","n","t"," ","i","s"," ","t","o","d","a","y">>

BODY_MILD == <<"l","o","s","s",","," ","d","r","o","p",","," ","w","e","a","k"," ","a","n","d"," ","p","o","o","r"," ","b","u","t"," ","g","a","i","n",","," ","r","i","s","e",","," ","w","i","n">>

BODY_BREACH == <<"D","a","t","a"," ","b","r","e","a","c","h"," ","h","i","t","s"," ","t","h","e"," ","S","a","m","s","u","n","g"," ","s","u","p","p","l","y"," ","c","h","a","i","n","!"," ","U","s","e","r","s"," ","w","o","r","r","y">>

BODY_LOSS == <<" ","a","c","c","e","s","s"," ","d","e","n","i","e","d"," ","t","h","e","n"," ","a"," ","l","o","s","s">>

\* company.json with two risk categories ("fine" listed under both), a
\* sensitive topic, a product keyword and a competitor.
KB_Apple ==
    [ company          |-> [name |-> STR_Apple],
      risk_keywords    |-> << <<STR_regulatory,
                                <<STR_Antitrust, STR_lawsuit, STR_fine>> >>,
                              <<STR_financial, <<STR_revenue, STR_fine>> >> >>,
      competitors      |-> << [name |-> STR_Samsung] >>,
      product_keywords |-> << <<STR_phones, <<STR_iPhone>> >> >>,
      sensitive_topics |-> << STR_data_breach >> ]

\* A knowledge base with every section missing.
KB_Empty == [k \in {} |-> <<>>]

KnowledgeBases == {KB_Apple, KB_Empty}

\* The category names a scorer over kb can put into a set.
CategoryNames(kb) ==
    LET rk == Get(kb, "risk_keywords", <<>>)
    IN  {rk[c][1] : c \in 1..Len(rk)} \cup {STR_sensitive}

\* Every order in which a process may iterate a set of these names.
HashOrders(names) ==
    {p \in [1..Cardinality(names) -> names] :
        \A i, j \in 1..Cardinality(names) : i # j => p[i] # p[j]}

Pad(n) == [i \in 1..n |-> "x"]

\* "access denied" ending exactly at the last character line 281 reads.
BODY_DENIED_EDGE ==
    Pad(AccessDeniedPrefix - Len(STR_access_denied)) \o STR_access_denied

\* The same one character later: the slice cuts the phrase.
BODY_DENIED_LATE ==
    Pad(AccessDeniedPrefix - Len(STR_access_denied)) \o BODY_LOSS

Titles == {STR_EMPTY, STR_Access_Denied, STR_access_denied, TITLE_LAWSUIT}

Bodies ==
    { STR_EMPTY, BODY_BLANK, BODY_DENIED, BODY_DENIED_EDGE, BODY_DENIED_LATE,
      BODY_NEG, BODY_POS, BODY_PLAIN, BODY_MILD, BODY_BREACH }

SentimentHints ==
    {STR_EMPTY, STR_negative, STR_Positive, STR_NEUTRAL, STR_mixed}

RiskTagHints == { <<>>, <<STR_Lawsuit>>, <<STR_fine, STR_recall, STR_FINE>> }

CompetitorHints == { <<>>, <<STR_Samsung>>, <<STR_Samsung, STR_Samsung>> }

\* A dict from a set of present keys: key k is present iff k \in keys.
Restrict(rec, keys) == [k \in keys |-> rec[k]]

\* Articles without hints: each combination of title, content_text and
\* article_text, each of them present or missing.
PlainArticles ==
    { Restrict([source |-> STR_Reuters, title |-> t, content_text |-> c,
                article_text |-> a], {"source"} \cup ks) :
        t \in Titles, c \in Bodies, a \in {STR_EMPTY, BODY_POS},
        ks \in SUBSET {"title", "content_text", "article_text"} }

\* Articles with the scraper's hints.
HintedArticles ==
    { Restrict([source |-> STR_Reuters, content_text |-> c, sentiment |-> s,
                risk_tags_detected |-> r, competitor_mentions |-> m],
               {"source", "content_text"} \cup ks) :
        c \in {STR_EMPTY, BODY_DENIED, BODY_NEG, BODY_POS, BODY_PLAIN},
        s \in SentimentHints, r \in RiskTagHints, m \in CompetitorHints,
        ks \in SUBSET {"sentiment", "risk_tags_detected", "competitor_mentions"} }

\* An article that was analyzed before and is fed back.
ReanalyzedArticles ==
    { [source |-> STR_Reuters, content_text |-> c, risk_analysis |-> EmptyResult] :
        c \in {BODY_NEG, STR_EMPTY} }

Articles == PlainArticles \cup HintedArticles \cup ReanalyzedArticles

(***************************************************************************)
(* State machine: one RiskScorer, called with one article after another    *)
(***************************************************************************)
NoArticle == [none |-> TRUE]

NoResult == [pending |-> TRUE]

NoCalc == [pending |-> TRUE]

\* No RiskScorerAgent was constructed, no data directory is read and no
\* batch operation has returned.
NoAgent == [none |-> TRUE]

NoFiles == <<>>

NoReturn == [none |-> TRUE]

\* No page was fetched by a scraper.
NoPage == [none |-> TRUE]

Init ==
    /\ \E kb \in KnowledgeBases :
          /\ scorer = RiskScorer(kb)
          /\ hashOrder \in HashOrders(CategoryNames(kb))
    /\ phase = "idle"
    /\ article = NoArticle
    /\ result = NoResult
    /\ seen = NoArticle
    /\ calc = NoCalc
    /\ agent = NoAgent
    /\ files = NoFiles
    /\ returned = NoReturn
    /\ page = NoPage

\* A caller invokes analyze_article(a).
Call(a) ==
    /\ phase = "idle"
    /\ phase' = "called"
    /\ article' = a
    /\ result' = NoResult
    /\ UNCHANGED <<scorer, hashOrder, seen, calc, agent, files, returned, page>>

RECURSIVE AppendNew(_, _)
AppendNew(list, items) ==
    IF items = <<>> THEN list
    ELSE AppendNew(IF InList(items[1], list) THEN list ELSE Append(list, items[1]),
                   Tail(items))

\* Mutant: the matched list aliases self.all_product_keywords, so the
\* scraper's risk tags appended to it stay in the index.
ScorerAfterAnalyze_aliasing(self, art) ==
    [self EXCEPT !.all_product_keywords =
        AppendNew(@, LowerAll(Get(art, "risk_tags_detected", <<>>)))]

\* The attributes of self after analyze_article: it assigns none.
ScorerAfterAnalyze(self, art) == self

\* Mutant: the risk-tag hints are lowercased in place, in the caller's list.
ArticleAfterAnalyze_lowering(art) ==
    IF "risk_tags_detected" \in DOMAIN art
    THEN [art EXCEPT !["risk_tags_detected"] = LowerAll(@)]
    ELSE art

\* The caller's article dict after analyze_article: lines 279-381 only read
\* it (article.get, article[...], article.items()); the lists appended to
\* are the ones _match_keywords returned.
ArticleAfterAnalyze(art) == art

\* analyze_article runs to its return.
AnalyzeArticle ==
    /\ phase = "called"
    /\ phase' = "idle"
    /\ result' = analyze_article(scorer, hashOrder, article)
    /\ scorer' = ScorerAfterAnalyze(scorer, article)
    /\ article' = ArticleAfterAnalyze(article)
    /\ UNCHANGED <<hashOrder, seen, calc, agent, files, returned, page>>

Next ==
    \/ \E a \in Articles : Call(a)
    \/ AnalyzeArticle

Spec == Init /\ [][Next]_vars

(***************************************************************************)
(* The same scorer with an observer of its first completed call            *)
(***************************************************************************)
\* The articles of the repeated-call runs: every path, with and without
\* hints.
IdemArticles ==
    { Restrict([source |-> STR_Reuters, content_text |-> c,
                sentiment |-> STR_negative, risk_tags_detected |-> <<STR_Lawsuit>>],
               {"source", "content_text"} \cup ks) :
        c \in {STR_EMPTY, BODY_DENIED, BODY_NEG, BODY_POS, BODY_PLAIN},
        ks \in SUBSET {"sentiment", "risk_tags_detected"} }

\* analyze_article runs to its return; the observer keeps the first call.
AnalyzeObserved ==
    /\ phase = "called"
    /\ phase' = "idle"
    /\ result' = analyze_article(scorer, hashOrder, article)
    /\ scorer' = ScorerAfterAnalyze(scorer, article)
    /\ seen' = IF seen = NoArticle
               THEN [article |-> article, result |-> result', between |-> FALSE]
               ELSE [seen EXCEPT !.between = @ \/ article # seen.article]
    /\ article' = ArticleAfterAnalyze(article)
    /\ UNCHANGED <<hashOrder, calc, agent, files, returned, page>>

NextIdem ==
    \/ \E a \in IdemArticles : Call(a)
    \/ AnalyzeObserved

SpecIdem == Init /\ [][NextIdem]_vars

(***************************************************************************)
(* _calculate_risk_score as a function of its arguments                    *)
(***************************************************************************)
MaxLexiconHits == 4

MaxKeywords == 6

\* The five categories of the summary report.
RiskCategoryNames ==
    <<STR_financial, STR_operational, STR_competitive, STR_regulatory,
      STR_sensitive>>

\* Scores _calculate_sentiment returns, and the three a hint maps to.
SentimentScores ==
    { sentiment_of_counts(g, p, u).score :
        g \in 0..MaxLexiconHits, p \in 0..MaxLexiconHits, u \in 0..MaxLexiconHits }
    \cup { <<1, 2>>, <<-1, 2>>, <<0, 1>> }

InitCalc ==
    /\ scorer = RiskScorer(KB_Empty)
    /\ hashOrder = <<STR_sensitive>>
    /\ phase = "idle"
    /\ article = NoArticle
    /\ result = NoResult
    /\ seen = NoArticle
    /\ agent = NoAgent
    /\ files = NoFiles
    /\ returned = NoReturn
    /\ page = NoPage
    /\ \E s \in SentimentScores, k \in 0..MaxKeywords,
          c \in 0..Len(RiskCategoryNames) :
          calc = [ pending          |-> TRUE,
                   sentiment_score  |-> s,
                   matched_keywords |-> Slice(negative_words, k),
                   risk_categories  |-> Slice(RiskCategoryNames, c) ]

CalculateRiskScore ==
    /\ calc.pending
    /\ calc' = [calc EXCEPT !.pending = FALSE] @@
               [risk_score |-> calculate_risk_score(calc.sentiment_score,
                                  calc.matched_keywords, calc.risk_categories)]
    /\ UNCHANGED <<scorer, hashOrder, phase, article, result, seen, agent, files,
                   returned, page>>

NextCalc == CalculateRiskScore

SpecCalc == InitCalc /\ [][NextCalc]_vars

(***************************************************************************)
(* Properties                                                              *)
(***************************************************************************)
\* analyze_article has returned: result is its result for article.
Returned == phase = "idle" /\ article # NoArticle

\* The NORMAL path returns the enriched record, the other two a flat one.
IsNormal(res) == "risk_analysis" \in DOMAIN res

\* The assessment fields, wherever the result holds them.
Analysis(res) == IF IsNormal(res) THEN res["risk_analysis"] ELSE res

IsSkipped(res) == "skipped" \in DOMAIN res /\ res["skipped"] = TRUE

\* Rationals compared by cross-multiplication (denominators are positive).
Lt(a, b) == a[1] * b[2] < b[1] * a[2]

Geq(a, b) == a[1] * b[2] >= b[1] * a[2]

\* Both content fields are empty or missing.
ContentEmpty(art) ==
    /\ Get(art, "content_text", STR_EMPTY) = STR_EMPTY
    /\ Get(art, "article_text", STR_EMPTY) = STR_EMPTY

TitleBlank(art) == \A i \in 1..Len(Title(art)) : IsSpace(Title(art)[i])

\* The phrase w occurs in s, compared without regard to case, wholly
\* within the first n characters.
OccursWithin(w, s, n) ==
    \E i \in 0..(Min2(n, Len(s)) - Len(w)) :
        \A j \in 1..Len(w) : LowerChar(s[i + j]) = LowerChar(w[j])

\* An access-denied page as the claims describe it.
DeniedPage(art) ==
    \/ In(STR_Access_Denied, Title(art))
    \/ OccursWithin(STR_access_denied, ArticleText(art), AccessDeniedPrefix)

HasHints(art) ==
    /\ Get(art, "sentiment", STR_EMPTY) = STR_negative
    /\ Get(art, "risk_tags_detected", <<>>) # <<>>
    /\ Get(art, "competitor_mentions", <<>>) # <<>>

NeutralZero(res) ==
    /\ Analysis(res).sentiment_label = STR_neutral
    /\ Analysis(res).sentiment_score = 0
    /\ Analysis(res).risk_score = 0
    /\ Analysis(res).risk_category = <<>>

AnalysisFields ==
    {"summary", "sentiment_label", "sentiment_score", "risk_category",
     "risk_score", "matched_keywords", "reasoning"}

\* C1: on every path, with or without hints, the result's risk_score lies in
\* [0,1] and its sentiment_score in [-1,1], both a whole number of hundredths.
C1_ScoresInRange ==
    Returned =>
        /\ Analysis(result).risk_score \in 0..100
        /\ Analysis(result).sentiment_score \in -100..100

\* C1 witness: a NORMAL result at both ends of the ranges (the clamp acts).
C1_Witness ==
    /\ Returned
    /\ IsNormal(result)
    /\ result["risk_analysis"].risk_score = 100
    /\ result["risk_analysis"].sentiment_score = -100

\* C2 (as claimed): with keywords and categories fixed, a strictly more
\* negative sentiment score never gives a lower risk score, across s = 0 too.
C2_NegativeNeverLowers ==
    ~calc.pending =>
        \A s2 \in SentimentScores :
            Lt(calc.sentiment_score, s2) =>
                Geq(calc.risk_score,
                    calculate_risk_score(s2, calc.matched_keywords,
                                         calc.risk_categories))

C4_SameShape ==
    Returned =>
        /\ DOMAIN result = (DOMAIN article \ {"article_text"}) \cup {"risk_analysis"}
        /\ \A k \in DOMAIN article \ {"article_text", "risk_analysis"} :
              result[k] = article[k]
        /\ AnalysisFields \subseteq DOMAIN result["risk_analysis"]
        /\ IsSkipped(result["risk_analysis"]) <=> DeniedPage(article)

\* C5 (as claimed): for an article with non-empty content the returned dict
\* has sentiment_label, risk_score, risk_category and matched_keywords as
\* top-level keys.
C5_TopLevelKeys ==
    (Returned /\ ArticleText(article) # STR_EMPTY) =>
        {"sentiment_label", "risk_score", "risk_category", "matched_keywords"}
            \subseteq DOMAIN result

\* C6: an article is returned with skipped = true exactly when its title
\* contains "Access Denied" or the first 100 characters of its body contain
\* "access denied" in any case; then the result is neutral with risk 0.0 and
\* no categories or keywords, whatever the text and the hints say.  (Input
\* records carry the fields of the input contract.)
C6_SkippedIffDenied ==
    Returned =>
        /\ IsSkipped(result) <=> DeniedPage(article)
        /\ DeniedPage(article) =>
              /\ NeutralZero(result)
              /\ ~IsNormal(result)
              /\ result["matched_keywords"] = <<>>

\* C6 witness: an access-denied page with keywords in its text and all three
\* hints was skipped.
C6_Witness ==
    /\ Returned
    /\ DeniedPage(article)
    /\ HasHints(article)
    /\ In(STR_lawsuit, lower(ArticleText(article)))
    /\ IsSkipped(result)

\* The claimed risk formula, in hundredths over the denominator of s.
ClaimedRisk(s, K, C) ==
    LET base == IF s[1] < 0 THEN 60 * Abs(s[1])
                ELSE IF s[1] > 0 THEN 10 * Abs(s[1])
                ELSE 20 * s[2]
        sum == base + 10 * Min2(4, K) * s[2] + 10 * C * s[2]
    IN  Max2(0, Min2(100 * s[2], sum))

C8_HintOverride ==
    (Returned /\ IsNormal(result)) =>
        LET hint == lower(Get(article, "sentiment", STR_EMPTY))
            local == calculate_sentiment(FullText(article))
            ra == result["risk_analysis"]
        IN  /\ hint = STR_positive => ra.sentiment_label = hint /\ ra.sentiment_score = 50
            /\ hint = STR_negative => ra.sentiment_label = hint /\ ra.sentiment_score = -50
            /\ hint = STR_neutral => ra.sentiment_label = hint /\ ra.sentiment_score = 0
            /\ hint \notin {STR_positive, STR_negative, STR_neutral} =>
                  /\ ra.sentiment_label = local.label
                  /\ ra.sentiment_score = Round2(local.score)

\* C8 witness: the hint "negative" on lexically positive text.
C8_Witness ==
    /\ Returned
    /\ IsNormal(result)
    /\ Get(article, "sentiment", STR_EMPTY) = STR_negative
    /\ calculate_sentiment(FullText(article)).label = STR_positive
    /\ result["risk_analysis"].sentiment_label = STR_negative

C10_KeywordMonotone ==
    ~calc.pending =>
        LET more == Append(calc.matched_keywords, STR_recall)
        IN  \A cats \in {calc.risk_categories,
                         Append(calc.risk_categories, STR_regulatory)} :
                LET r == calculate_risk_score(calc.sentiment_score, more, cats)
                IN  /\ Geq(r, calc.risk_score)
                    /\ (Len(calc.matched_keywords) < 4
                          /\ Lt(calc.risk_score, <<1, 1>>))
                        => Lt(calc.risk_score, r)

\* C10 witness: a call with three keywords whose score is below 1.0.
C10_Witness ==
    /\ ~calc.pending
    /\ Len(calc.matched_keywords) = 3
    /\ Lt(calc.risk_score, <<1, 1>>)
    /\ Lt(<<0, 1>>, calc.sentiment_score)

(***************************************************************************)
(* RiskScorerAgent (src/agents/risk_scorer_agent.py)                       *)
(*                                                                         *)
(* The data directory is the sequence of its four news files, in the       *)
(* order process_all_news reads them.  A file is missing, or unreadable    *)
(* (json.load raises), or holds a list of articles.  JSON null is held as  *)
(* NULL, which no str equals: the elements of a str are single characters. *)
(***************************************************************************)
NULL == <<"null">>

STR_finance_news == <<"f","i","n","a","n","c","e","_","n","e","w","s",".","j","s","o","n">>

STR_market_news == <<"m","a","r","k","e","t","_","n","e","w","s",".","j","s","o","n">>

STR_industry_news == <<"i","n","d","u","s","t","r","y","_","n","e","w","s",".","j","s","o","n">>

STR_linkedin_news == <<"l","i","n","k","e","d","i","n","_","n","e","w","s",".","j","s","o","n">>

STR_analyzed_at == <<"2","0","2","5","-","1","1","-","2","2">>

STR_No_title == <<"N","o"," ","t","i","t","l","e">>

STR_unknown == <<"u","n","k","n","o","w","n">>

STR_Unknown == <<"U","n","k","n","o","w","n">>

STR_No_results == <<"N","o"," ","r","e","s","u","l","t","s"," ","t","o"," ","s","u","m","m","a","r","i","z","e">>

\* Lines 103-108.
news_files ==
    <<STR_finance_news, STR_market_news, STR_industry_news, STR_linkedin_news>>

MissingFile == [exists |-> FALSE]

UnreadableFile == [exists |-> TRUE, readable |-> FALSE]

NewsFile(articles) == [exists |-> TRUE, readable |-> TRUE, articles |-> articles]

\* Line 175: 0.70, in hundredths.
HighRiskThreshold == 70

\* Line 196.
TopHighRisk == 10

\* d[k] = v on a dict held as a function.
SetKey(d, k, v) == [x \in DOMAIN d \cup {k} |-> IF x = k THEN v ELSE d[x]]

\* analyze_article raises: line 281 evaluates `"Access Denied" in title`
\* with title None (TypeError).
AnalyzeRaises(art) == Get(art, "title", STR_EMPTY) = NULL

\* Lines 42-45.
RiskScorerAgent(company_knowledge) ==
    [ company_knowledge |-> company_knowledge,
      processed_count   |-> 0,
      skipped_count     |-> 0,
      results           |-> <<>> ]

\* Lines 74-78.
AnalysisMetadata(idx, name) ==
    [article_index |-> idx, source_file |-> name, analyzed_at |-> STR_analyzed_at]

\* Lines 69-81: a skipped result is counted and dropped, any other gets its
\* metadata and is appended.
CountResult(st, analyzed, idx, name) ==
    IF Get(analyzed, "skipped", FALSE) = TRUE
    THEN [st EXCEPT !.skipped_count = @ + 1]
    ELSE [ st EXCEPT
             !.file_results = Append(@, SetKey(analyzed, "_analysis_metadata",
                                               AnalysisMetadata(idx, name))),
             !.processed_count = @ + 1 ]

\* Mutant: a result marked skipped is appended like any other.
ProcessArticle_keep_skipped(self, order, name, art, idx, st) ==
    IF AnalyzeRaises(art) THEN st
    ELSE LET analyzed == analyze_article(self, order, art)
         IN  [ st EXCEPT
                 !.skipped_count = IF Get(analyzed, "skipped", FALSE) = TRUE
                                   THEN @ + 1 ELSE @,
                 !.processed_count = IF Get(analyzed, "skipped", FALSE) = TRUE
                                     THEN @ ELSE @ + 1,
                 !.file_results = Append(@, SetKey(analyzed, "_analysis_metadata",
                                                   AnalysisMetadata(idx, name))) ]

\* Lines 64-85, one turn of the loop: st holds the two counters and
\* file_results; self is the agent's scorer.
ProcessArticle(self, order, name, art, idx, st) ==
    IF AnalyzeRaises(art) THEN st
    ELSE CountResult(st, analyze_article(self, order, art), idx, name)

RECURSIVE ProcessArticles_abort(_, _, _, _, _, _)
\* Mutant: without the inner try, the first raising article ends the file in
\* the outer handler, which returns [].
ProcessArticles_abort(self, order, name, articles, idx, st) ==
    IF idx > Len(articles) THEN st
    ELSE IF AnalyzeRaises(articles[idx]) THEN [st EXCEPT !.file_results = <<>>]
    ELSE ProcessArticles_abort(self, order, name, articles, idx + 1,
             ProcessArticle(self, order, name, articles[idx], idx, st))

RECURSIVE ProcessArticles(_, _, _, _, _, _)
\* Lines 63-85: the loop from article idx on.
ProcessArticles(self, order, name, articles, idx, st) ==
    IF idx > Len(articles) THEN st
    ELSE ProcessArticles(self, order, name, articles, idx + 1,
             ProcessArticle(self, order, name, articles[idx], idx, st))

\* Lines 47-91: the counters after the file, and its results.
process_news_file(self, order, counts, name, file) ==
    IF ~file.readable
    THEN [ processed_count |-> counts.processed_count,
           skipped_count   |-> counts.skipped_count,
           file_results    |-> <<>> ]
    ELSE ProcessArticles(self, order, name, file.articles, 1,
             [ processed_count |-> counts.processed_count,
               skipped_count   |-> counts.skipped_count,
               file_results    |-> <<>> ])

\* Lines 112-113: all_results.extend(results), r being the counters and the
\* results of the file just processed.
ExtendResults(st, r) ==
    [ processed_count |-> r.processed_count,
      skipped_count   |-> r.skipped_count,
      all_results     |-> st.all_results \o r.file_results ]

RECURSIVE ProcessFiles(_, _, _, _, _)
\* Lines 110-115: the loop from file i on; st holds the counters and
\* all_results.
ProcessFiles(self, order, dir, i, st) ==
    IF i > Len(news_files) THEN st
    ELSE IF ~dir[i].exists THEN ProcessFiles(self, order, dir, i + 1, st)
    ELSE ProcessFiles(self, order, dir, i + 1,
             ExtendResults(st, process_news_file(self, order, st, news_files[i],
                                                 dir[i])))

\* Line 117 and the counters of lines 70 and 81: the agent's attributes
\* after the loop over the files.
AgentAfter(self, st) ==
    [ self EXCEPT !.processed_count = st.processed_count,
                  !.skipped_count   = st.skipped_count,
                  !.results         = st.all_results ]

\* Lines 93-118: the agent after the call; results is also the value
\* returned.
process_all_news(self, scorer_, order, dir) ==
    AgentAfter(self, ProcessFiles(scorer_, order, dir, 1,
                         [ processed_count |-> self.processed_count,
                           skipped_count   |-> self.skipped_count,
                           all_results     |-> <<>> ]))

\* sum(risk_scores), in hundredths.
RECURSIVE SumScores(_)
SumScores(scores) ==
    IF scores = <<>> THEN 0 ELSE scores[1] + SumScores(Tail(scores))

\* list.sort(key=risk_score, reverse=True) puts x before the first entry with
\* a smaller key: the sort is stable, equal keys keep their order.
InsertDesc(sorted, x) ==
    LET before == {i \in 1..Len(sorted) : sorted[i].risk_score >= x.risk_score}
        n == Cardinality(before)
    IN  SubSeq(sorted, 1, n) \o <<x>> \o SubSeq(sorted, n + 1, Len(sorted))

RECURSIVE SortDesc_from(_, _)
SortDesc_from(list, sorted) ==
    IF list = <<>> THEN sorted
    ELSE SortDesc_from(Tail(list), InsertDesc(sorted, list[1]))

\* Mutant: the list is cut in insertion order, never sorted.
SortDesc_unsorted(list) == list

\* Line 188.
SortDesc(list) == SortDesc_from(list, <<>>)

\* Lines 158-171: what the report reads of one result.
ReportedAnalysis(res) ==
    LET risk_analysis == Get(res, "risk_analysis", [k \in {} |-> <<>>])
    IN  [ sentiment_label |-> Get(risk_analysis, "sentiment_label", STR_neutral),
          risk_category   |-> Get(risk_analysis, "risk_category", <<>>),
          risk_score      |-> Get(risk_analysis, "risk_score", 0) ]

\* Lines 176-182.
HighRiskEntry(res) ==
    [ title         |-> Get(res, "title", STR_No_title),
      risk_score    |-> ReportedAnalysis(res).risk_score,
      risk_category |-> ReportedAnalysis(res).risk_category,
      sentiment     |-> ReportedAnalysis(res).sentiment_label,
      source        |-> Get(res, "source", STR_unknown) ]

\* Line 175.
IsHighRisk(res) == ReportedAnalysis(res).risk_score >= HighRiskThreshold

\* Lines 153-182: the entries of the high-risk results, in result order.
RECURSIVE HighRiskArticles(_)
HighRiskArticles(results) ==
    IF results = <<>> THEN <<>>
    ELSE (IF IsHighRisk(results[1]) THEN <<HighRiskEntry(results[1])>> ELSE <<>>)
         \o HighRiskArticles(Tail(results))

\* Lines 127-131.
NoResultsReport == [error |-> STR_No_results, total_articles |-> 0]

\* Lines 133-198.
SummaryReport(self) ==
    LET results == self.results
        read == [i \in 1..Len(results) |-> ReportedAnalysis(results[i])]
        sentiment_counts ==
            [ l \in {STR_positive, STR_neutral, STR_negative} |->
                Cardinality({i \in 1..Len(results) : read[i].sentiment_label = l}) ]
        risk_category_counts ==
            [ c \in {RiskCategoryNames[j] : j \in 1..Len(RiskCategoryNames)} |->
                SumScores([i \in 1..Len(results) |->
                    Cardinality({j \in 1..Len(read[i].risk_category) :
                                    read[i].risk_category[j] = c})]) ]
        risk_scores == [i \in 1..Len(results) |-> read[i].risk_score]
        high_risk_articles == SortDesc(HighRiskArticles(results))
    IN  [ total_articles_analyzed    |-> Len(results),
          sentiment_distribution     |-> sentiment_counts,
          risk_category_distribution |-> risk_category_counts,
          average_risk_score         |-> Round2(<<SumScores(risk_scores),
                                                  100 * Len(risk_scores)>>),
          high_risk_articles_count   |-> Len(high_risk_articles),
          top_high_risk_articles     |-> Slice(high_risk_articles, TopHighRisk),
          company_name               |->
              Get(Get(self.company_knowledge, "company", [k \in {} |-> <<>>]),
                  "name", STR_Unknown) ]

\* Lines 120-198.
generate_summary_report(self) ==
    IF self.results = <<>> THEN NoResultsReport ELSE SummaryReport(self)

(***************************************************************************)
(* get_high_risk_alerts (src/tools/risk_scorer_tool.py) and                *)
(* PipelineOrchestrator.run_risk_assessment (src/run_complete_pipeline.py) *)
(***************************************************************************)
STR_alerts_failed == <<"F","a","i","l","e","d"," ","t","o"," ","g","e","t"," ","a","l","e","r","t","s",":"," ","'","r","i","s","k","_","s","c","o","r","e","'">>

\* Lines 166-173.
AlertEntry(r) ==
    [ title         |-> Get(r, "article_title", STR_No_title),
      risk_score    |-> r["risk_score"],
      sentiment     |-> r["sentiment_label"],
      risk_category |-> Get(r, "risk_category", <<>>),
      source        |-> Get(r, "original_source", STR_unknown),
      reasoning     |-> Get(r, "reasoning", STR_EMPTY) ]

\* Lines 165-176, when no subscript raises.
RECURSIVE AlertEntries(_, _)
AlertEntries(results, risk_threshold) ==
    IF results = <<>> THEN <<>>
    ELSE (IF results[1]["risk_score"] >= risk_threshold
          THEN <<AlertEntry(results[1])>> ELSE <<>>)
         \o AlertEntries(Tail(results), risk_threshold)

\* Lines 181-186.
AlertsRecord(high_risk, risk_threshold) ==
    [ alert_count        |-> Len(high_risk),
      threshold_used     |-> risk_threshold,
      high_risk_articles |-> high_risk ]

\* Lines 165-193 over the agent's results: r['risk_score'] raises KeyError
\* on a result without that key, and the handler returns the error record.
AlertsOf(results, risk_threshold) ==
    IF \E i \in 1..Len(results) : "risk_score" \notin DOMAIN results[i]
    THEN [ error              |-> STR_alerts_failed,
           alert_count        |-> 0,
           threshold_used     |-> risk_threshold,
           high_risk_articles |-> <<>> ]
    ELSE AlertsRecord(SortDesc(AlertEntries(results, risk_threshold)),
                      risk_threshold)

\* Lines 157-193.
get_high_risk_alerts(company_knowledge, order, dir, risk_threshold) ==
    AlertsOf(process_all_news(RiskScorerAgent(company_knowledge),
                              RiskScorer(company_knowledge), order, dir).results,
             risk_threshold)

\* Lines 119-128, when nothing raises: every article of every existing
\* file, analyzed.
RECURSIVE AnalyzeAll(_, _, _, _)
AnalyzeAll(self, order, dir, i) ==
    IF i > Len(news_files) THEN <<>>
    ELSE (IF dir[i].exists
          THEN [j \in 1..Len(dir[i].articles) |->
                   analyze_article(self, order, dir[i].articles[j])]
          ELSE <<>>)
         \o AnalyzeAll(self, order, dir, i + 1)

\* Line 131.
RECURSIVE FilterByRisk(_, _)
FilterByRisk(all_articles, min_risk) ==
    IF all_articles = <<>> THEN <<>>
    ELSE (IF Get(all_articles[1], "risk_score", 0) >= min_risk
          THEN <<all_articles[1]>> ELSE <<>>)
         \o FilterByRisk(Tail(all_articles), min_risk)

\* Line 137: the stable descending sort, on a.get('risk_score', 0).
SortByTopLevelRisk(list) ==
    LET keyed == [i \in 1..Len(list) |->
                     [risk_score |-> Get(list[i], "risk_score", 0), a |-> list[i]]]
        sorted == SortDesc(keyed)
    IN  [i \in 1..Len(sorted) |-> sorted[i].a]

\* Lines 105-151: the value returned and, when it is written, the content
\* of risk_assessment_results.json.
run_risk_assessment(company_data, order, dir, min_risk) ==
    IF \E i \in 1..Len(dir) :
          /\ dir[i].exists
          /\ \/ ~dir[i].readable
             \/ \E j \in 1..Len(dir[i].articles) : AnalyzeRaises(dir[i].articles[j])
    THEN [value |-> FALSE]
    ELSE [ value |-> TRUE,
           risk_assessment_file |->
               SortByTopLevelRisk(FilterByRisk(
                   AnalyzeAll(RiskScorer(company_data), order, dir, 1), min_risk)) ]

(***************************************************************************)
(* Data directories, and the state machine of one RiskScorerAgent          *)
(***************************************************************************)
\* knowledge/company.json.
company_json == KB_Apple

BODY_A_LOSS == <<"a"," ","l","o","s","s">>

STR_shortage == <<"s","h","o","r","t","a","g","e">>

STR_strike == <<"s","t","r","i","k","e">>

STR_boycott == <<"b","o","y","c","o","t","t">>

TITLE_ONE == <<"o","n","e">>

TITLE_TWO == <<"t","w","o">>

\* Scored 1.0: negative, three keywords, two categories.
ART_HIGH == [source |-> STR_Reuters, title |-> TITLE_LAWSUIT, content_text |-> BODY_NEG]

\* Scored 0.4: positive, two keywords, one category.
ART_LOW == [source |-> STR_Reuters, content_text |-> BODY_POS]

\* Scored 0.6 + 0.1 for each hinted keyword.
ArtLoss(title, tags) ==
    [title |-> title, content_text |-> BODY_A_LOSS, risk_tags_detected |-> tags]

ART_60 == ArtLoss(TITLE_ONE, <<>>)

ART_70 == ArtLoss(TITLE_ONE, <<STR_recall>>)

ART_80 == ArtLoss(TITLE_ONE, <<STR_recall, STR_shortage>>)

ART_90 == ArtLoss(TITLE_TWO, <<STR_recall, STR_shortage, STR_strike>>)

ART_100 == ArtLoss(TITLE_TWO, <<STR_recall, STR_shortage, STR_strike, STR_boycott>>)

\* An access-denied page: analyze_article marks it skipped.
ART_DENIED == [source |-> STR_Reuters, title |-> STR_Access_Denied, content_text |-> BODY_NEG]

\* No title and no text: the flat neutral result.
ART_EMPTY == [source |-> STR_Reuters]

\* "title": null makes analyze_article raise.
ART_NULL == [source |-> STR_Reuters, title |-> NULL, content_text |-> BODY_NEG]

AgentArticles == {ART_HIGH, ART_LOW, ART_70, ART_DENIED, ART_EMPTY, ART_NULL}

\* A news file of no, one or two articles of the pool.
ShortFiles(pool) ==
    {NewsFile(<<>>)} \cup {NewsFile(<<a>>) : a \in pool}
                    \cup {NewsFile(<<a, b>>) : a \in pool, b \in pool}

\* A first file of every shape, with later files of a few.
SmallDirs ==
    { <<f1, f2, MissingFile, f4>> :
        f1 \in {MissingFile, UnreadableFile} \cup ShortFiles(AgentArticles),
        f2 \in {MissingFile, UnreadableFile, NewsFile(<<ART_NULL, ART_LOW>>)},
        f4 \in {MissingFile, NewsFile(<<ART_HIGH>>)} }

\* Twelve high-risk articles of four different scores, out of score order,
\* among others.
BigDir ==
    << NewsFile(<<ART_70, ART_90, ART_LOW, ART_80, ART_100, ART_DENIED, ART_70>>),
       NewsFile(<<ART_100, ART_NULL, ART_80, ART_90>>),
       MissingFile,
       NewsFile(<<ART_80, ART_60, ART_HIGH, ART_70, ART_90, ART_EMPTY>>) >>

DataDirs == SmallDirs \cup {BigDir}

\* The iteration orders that show in this pool: no article of it matches a
\* sensitive topic, so only regulatory and financial can change places.
AgentHashOrders ==
    { <<STR_regulatory, STR_financial, STR_sensitive>>,
      <<STR_financial, STR_regulatory, STR_sensitive>> }

\* Calls of process_all_news are followed while the two counters are below
\* this number.
MaxCounted == 4

InitAgent ==
    /\ scorer = RiskScorer(company_json)
    /\ hashOrder \in AgentHashOrders
    /\ phase = "idle"
    /\ article = NoArticle
    /\ result = NoResult
    /\ seen = NoArticle
    /\ calc = NoCalc
    /\ agent = RiskScorerAgent(company_json)
    /\ files \in DataDirs
    /\ returned = NoReturn
    /\ page = NoPage

\* agent.process_all_news()
ProcessAllNews ==
    /\ agent.processed_count + agent.skipped_count < MaxCounted
    /\ agent' = process_all_news(agent, scorer, hashOrder, files)
    /\ returned' = [op |-> "process_all_news", value |-> agent'.results]
    /\ UNCHANGED <<scorer, hashOrder, phase, article, result, seen, calc, files, page>>

\* agent.generate_summary_report()
GenerateSummaryReport ==
    /\ returned' = [op |-> "generate_summary_report",
                    value |-> generate_summary_report(agent)]
    /\ UNCHANGED <<scorer, hashOrder, phase, article, result, seen, calc, agent,
                   files, page>>

NextAgent ==
    \/ ProcessAllNews
    \/ GenerateSummaryReport

SpecAgent == InitAgent /\ [][NextAgent]_vars

(***************************************************************************)
(* The two batch entry points that build their own scorer                  *)
(***************************************************************************)
\* Thresholds, in hundredths.
RiskThresholds == {0, 50, 100}

ToolDirs ==
    { <<f1, f2, MissingFile, MissingFile>> :
        f1 \in {MissingFile, UnreadableFile}
               \cup ShortFiles(AgentArticles \ {ART_LOW}),
        f2 \in {MissingFile, NewsFile(<<ART_LOW, ART_70>>)} }

InitTools ==
    /\ scorer = RiskScorer(company_json)
    /\ hashOrder \in AgentHashOrders
    /\ phase = "idle"
    /\ article = NoArticle
    /\ result = NoResult
    /\ seen = NoArticle
    /\ calc = NoCalc
    /\ agent = NoAgent
    /\ files \in ToolDirs
    /\ returned = NoReturn
    /\ page = NoPage

\* get_high_risk_alerts(risk_threshold)
GetHighRiskAlerts(risk_threshold) ==
    /\ returned' = [op |-> "get_high_risk_alerts",
                    value |-> get_high_risk_alerts(company_json, hashOrder, files,
                                                   risk_threshold)]
    /\ UNCHANGED <<scorer, hashOrder, phase, article, result, seen, calc, agent,
                   files, page>>

\* PipelineOrchestrator.run_risk_assessment(min_risk)
RunRiskAssessment(min_risk) ==
    /\ returned' = [op |-> "run_risk_assessment", min_risk |-> min_risk]
                   @@ run_risk_assessment(company_json, hashOrder, files, min_risk)
    /\ UNCHANGED <<scorer, hashOrder, phase, article, result, seen, calc, agent,
                   files, page>>

\* run_pipeline ends with `return value`.
Returns(value) == [raises |-> FALSE, value |-> value]

\* run_pipeline ends with an exception that leaves the function.
Raises(exception) == [raises |-> TRUE, exception |-> exception]

\* run_orchestrator.run_pipeline, lines 95-151: the copy to the dashboard,
\* the charts (whose failures are only printed) and the printed summary,
\* whose first line reads summary['total_articles_analyzed'] outside any try.
PipelineAfterScoring(summary, copy_ok) ==
    IF ~copy_ok THEN Returns(FALSE)
    ELSE IF "total_articles_analyzed" \in DOMAIN summary THEN Returns(TRUE)
    ELSE Raises("KeyError")

\* run_orchestrator.run_pipeline, lines 18-151.  data_dir_exists: the data
\* directory is there; other_json: it holds a .json file that is none of the
\* four the agent reads; knowledge_ok: company.json loads; copy_ok: the copy
\* to the dashboard succeeds.
run_pipeline(knowledge, order, dir, data_dir_exists, other_json, knowledge_ok, copy_ok) ==
    IF ~data_dir_exists THEN Returns(FALSE)
    ELSE IF ~other_json /\ \A i \in 1..Len(dir) : ~dir[i].exists
    THEN Returns(FALSE)
    ELSE IF ~knowledge_ok THEN Returns(FALSE)
    ELSE PipelineAfterScoring(
             generate_summary_report(
                 process_all_news(RiskScorerAgent(knowledge), RiskScorer(knowledge),
                                  order, dir)),
             copy_ok)

\* A directory that is not there holds no file.
DirectoryShape(data_dir_exists, other_json) ==
    data_dir_exists
    \/ (~other_json /\ \A i \in 1..Len(files) : ~files[i].exists)

\* run_pipeline()
RunPipeline(data_dir_exists, other_json, knowledge_ok, copy_ok) ==
    /\ DirectoryShape(data_dir_exists, other_json)
    /\ returned' = [ op |-> "run_pipeline",
                     outcome |-> run_pipeline(company_json, hashOrder, files,
                                              data_dir_exists, other_json,
                                              knowledge_ok, copy_ok) ]
    /\ UNCHANGED <<scorer, hashOrder, phase, article, result, seen, calc, agent,
                   files, page>>

\* auto_refresh_orchestrator.job, lines 17-25: run_pipeline() in a try that
\* prints the exception; the value run_pipeline returns is dropped.
job(outcome) ==
    [completed |-> TRUE, pipeline |-> outcome, printed_error |-> outcome.raises]

\* One scheduled run of job().
Job(data_dir_exists, other_json, knowledge_ok, copy_ok) ==
    /\ DirectoryShape(data_dir_exists, other_json)
    /\ returned' = [ op |-> "job",
                     outcome |-> job(run_pipeline(company_json, hashOrder, files,
                                                  data_dir_exists, other_json,
                                                  knowledge_ok, copy_ok)) ]
    /\ UNCHANGED <<scorer, hashOrder, phase, article, result, seen, calc, agent,
                   files, page>>

NextTools ==
    \/ \E d, o, k, c \in BOOLEAN : RunPipeline(d, o, k, c)
    \/ \E d, o, k, c \in BOOLEAN : Job(d, o, k, c)
    \/ \E t \in RiskThresholds : GetHighRiskAlerts(t)
    \/ \E m \in RiskThresholds : RunRiskAssessment(m)

SpecTools == InitTools /\ [][NextTools]_vars

(***************************************************************************)
(* Properties of the batch operations                                      *)
(***************************************************************************)
\* process_all_news was the last operation: agent.results is what it
\* collected from files.
Processed == returned # NoReturn /\ returned.op = "process_all_news"

Readable(i) == files[i].exists /\ files[i].readable

\* The places <<file, index>> of the articles of the data directory.
Places ==
    UNION { {<<i, j>> : j \in 1..Len(files[i].articles)} :
              i \in {i \in 1..Len(files) : Readable(i)} }

ArticleAt(p) == files[p[1]].articles[p[2]]

\* The article at p makes analyze_article raise.
Fails(p) == Get(ArticleAt(p), "title", STR_EMPTY) = NULL

\* The article at p is analyzed and not marked skipped.
Scored(p) == ~Fails(p) /\ ~DeniedPage(ArticleAt(p))

\* The result collected for the article at p, if any.
ResultsOf(p) ==
    {k \in 1..Len(agent.results) :
        /\ agent.results[k]["_analysis_metadata"].article_index = p[2]
        /\ agent.results[k]["_analysis_metadata"].source_file = news_files[p[1]]}

\* C11: when process_all_news has returned, every article that
\* analyze_article accepts and does not mark skipped has its analysis in
\* agent.results, in reading order, whichever articles before or after it,
\* in its file or in another, made analyze_article raise.
C11_ExceptionDoesNotAbort ==
    Processed =>
        /\ \A p \in Places : Scored(p) =>
              \E k \in ResultsOf(p) :
                  \A f \in DOMAIN analyze_article(scorer, hashOrder, ArticleAt(p)) :
                      agent.results[k][f] =
                          analyze_article(scorer, hashOrder, ArticleAt(p))[f]
        /\ \A p, q \in Places :
              (Scored(p) /\ Scored(q)
               /\ (p[1] < q[1] \/ (p[1] = q[1] /\ p[2] < q[2])))
              => \A k \in ResultsOf(p), l \in ResultsOf(q) : k < l

\* A batch in which an article raised after a scored one and before another
\* of its file, with a later file holding a scored article too.
C11_Witness ==
    /\ Processed
    /\ \E p, before, after, later \in Places :
          /\ Fails(p)
          /\ before[1] = p[1] /\ before[2] < p[2] /\ Scored(before)
          /\ after[1] = p[1] /\ after[2] > p[2] /\ Scored(after)
          /\ later[1] > p[1] /\ Scored(later)
          /\ ResultsOf(before) # {} /\ ResultsOf(after) # {} /\ ResultsOf(later) # {}

Reported == returned # NoReturn /\ returned.op = "generate_summary_report"

NotDenied(a) == Get(a, "title", STR_EMPTY) = NULL \/ ~DeniedPage(a)

\* The data directory with the access-denied pages taken out of its files.
WithoutDenied(dir) ==
    [i \in 1..Len(dir) |->
        IF dir[i].exists /\ dir[i].readable
        THEN [dir[i] EXCEPT !.articles = SelectSeq(@, NotDenied)]
        ELSE dir[i]]

DeniedPlaces == {p \in Places : ~Fails(p) /\ DeniedPage(ArticleAt(p))}

\* C12: no result marked skipped is ever in agent.results, and none of them
\* comes from an access-denied page; every report over a non-empty result
\* list is the report of the same data directory without those pages; and
\* each call of process_all_news adds their number to skipped_count and the
\* number of its results to processed_count.
C12_SkippedExcluded ==
    /\ agent # NoAgent =>
          /\ \A k \in 1..Len(agent.results) : ~IsSkipped(agent.results[k])
          /\ agent.results # <<>> =>
                \A p \in DeniedPlaces : ResultsOf(p) = {}
    /\ (Reported /\ agent.results # <<>>) =>
          returned.value =
              generate_summary_report(
                  process_all_news(RiskScorerAgent(company_json), scorer, hashOrder,
                                   WithoutDenied(files)))
    /\ Processed =>
          \E calls \in 1..(MaxCounted + 1) :
              /\ agent.skipped_count = calls * Cardinality(DeniedPlaces)
              /\ agent.processed_count = calls * Len(agent.results)

\* A report over a batch that held an access-denied page next to scored
\* articles.
C12_Witness ==
    /\ Reported
    /\ agent.results # <<>>
    /\ agent.skipped_count > 0
    /\ DeniedPlaces # {}
    /\ returned.value.total_articles_analyzed < Cardinality(Places)

\* The scores of the results of the agent that are high-risk.
HighResults == {k \in 1..Len(agent.results) :
                   Analysis(agent.results[k]).risk_score >= HighRiskThreshold}

\* How many results, and how many entries of the list top, have score v.
ResultsScored(v) ==
    Cardinality({k \in HighResults : Analysis(agent.results[k]).risk_score = v})

EntriesScored(top, v) ==
    Cardinality({i \in 1..Len(top) : top[i].risk_score = v})

\* C13: in every report over a non-empty result list,
\* high_risk_articles_count is the number of results with risk_score >= 0.7,
\* and top_high_risk_articles holds at most 10 entries (all of them when
\* there are no more than 10), each the title, source and score of one such
\* result, in non-increasing order of risk_score, and no high-risk result
\* that is left out has a strictly higher score than an entry of the list.
C13_TopHighRisk ==
    (Reported /\ agent.results # <<>>) =>
        LET top == returned.value.top_high_risk_articles
        IN  /\ returned.value.high_risk_articles_count = Cardinality(HighResults)
            /\ Len(top) = Min2(TopHighRisk, Cardinality(HighResults))
            /\ \A i \in 1..Len(top) :
                  \E k \in HighResults :
                      /\ top[i].risk_score = Analysis(agent.results[k]).risk_score
                      /\ top[i].title = Get(agent.results[k], "title", STR_No_title)
                      /\ top[i].source = Get(agent.results[k], "source", STR_unknown)
            /\ \A v \in HighRiskThreshold..100 :
                  /\ EntriesScored(top, v) <= ResultsScored(v)
                  /\ EntriesScored(top, v) < ResultsScored(v) =>
                        \A i \in 1..Len(top) : top[i].risk_score >= v
            /\ \A i, j \in 1..Len(top) : i < j => top[i].risk_score >= top[j].risk_score

\* A report over more than 10 high-risk results of several scores, read out
\* of score order, with some of them left out of the list.
C13_Witness ==
    /\ Reported
    /\ Cardinality(HighResults) > TopHighRisk
    /\ Len(returned.value.top_high_risk_articles) = TopHighRisk
    /\ \E k, l \in HighResults :
          k < l /\ Analysis(agent.results[k]).risk_score
                   < Analysis(agent.results[l]).risk_score
    /\ \E v \in HighRiskThreshold..100 :
          0 < EntriesScored(returned.value.top_high_risk_articles, v)
          /\ EntriesScored(returned.value.top_high_risk_articles, v) < ResultsScored(v)

\* C14: a call of generate_summary_report that follows the return of
\* process_all_news with the list R returns a report whose
\* total_articles_analyzed is len(R), whatever the data directory holds.
C14_TotalMatchesResults ==
    [][ (Processed /\ returned'.op = "generate_summary_report") =>
            /\ "total_articles_analyzed" \in DOMAIN returned'.value
            /\ returned'.value["total_articles_analyzed"] = Len(returned.value)
      ]_vars

\* The risk score analyze_article computes for the article at p.
ComputedRisk(p) ==
    Analysis(analyze_article(scorer, hashOrder, ArticleAt(p))).risk_score

Alerted == returned # NoReturn /\ returned.op = "get_high_risk_alerts"

\* C15: get_high_risk_alerts(risk_threshold) returns no error field, and its
\* high_risk_articles are exactly the processed articles (analyzed and not
\* skipped) whose risk score is >= risk_threshold, one entry each, in
\* non-increasing order of risk score, with alert_count their number.
C15_AlertsExact ==
    Alerted =>
        LET alerts == returned.value.high_risk_articles
            due == {p \in Places : Scored(p)
                                   /\ ComputedRisk(p) >= returned.value.threshold_used}
        IN  /\ "error" \notin DOMAIN returned.value
            /\ returned.value.alert_count = Cardinality(due)
            /\ Len(alerts) = Cardinality(due)
            /\ \A v \in 0..100 :
                  Cardinality({i \in 1..Len(alerts) : alerts[i].risk_score = v})
                  = Cardinality({p \in due : ComputedRisk(p) = v})
            /\ \A i, j \in 1..Len(alerts) :
                  i < j => alerts[i].risk_score >= alerts[j].risk_score

Assessed ==
    returned # NoReturn /\ returned.op = "run_risk_assessment" /\ returned.value

\* C16: when run_risk_assessment(min_risk) succeeds, the file it writes
\* holds exactly the analyzed articles whose computed risk score is
\* >= min_risk, one record each, in non-increasing order of computed risk
\* score; none with a computed score >= min_risk > 0 is missing.
C16_AssessmentExact ==
    Assessed =>
        LET written == returned.risk_assessment_file
            due == {p \in Places : ComputedRisk(p) >= returned.min_risk}
        IN  /\ Len(written) = Cardinality(due)
            /\ \A v \in 0..100 :
                  Cardinality({i \in 1..Len(written) :
                                  Analysis(written[i]).risk_score = v})
                  = Cardinality({p \in due : ComputedRisk(p) = v})
            /\ \A i, j \in 1..Len(written) :
                  i < j => Analysis(written[i]).risk_score
                           >= Analysis(written[j]).risk_score

(***************************************************************************)
(* The scrapers' STRICT relevance filter: finance_crawler.py and           *)
(* industry_scraper.py (src/agents/finance_scrapper)                       *)
(*                                                                         *)
(* A fetched page is held as the title and the text scrape_article         *)
(* extracts from it and whether its publication time is within the time    *)
(* window; FetchFailed is a request that raised.  Of the record            *)
(* scrape_article returns, the fields the relevance analysis decides are   *)
(* held (not the tables, images, numbers, sentiment, url and time).        *)
(***************************************************************************)
STR_AAPL == <<"A","A","P","L">>

STR_SSNLF == <<"S","S","N","L","F">>

STR_Technology == <<"T","e","c","h","n","o","l","o","g","y">>

STR_BAR == <<" ","|"," ">>

STR_Direct_mention == <<"D","i","r","e","c","t"," ","m","e","n","t","i","o","n"," ","o","f"," ">>

STR_Competitor_mentions == <<"C","o","m","p","e","t","i","t","o","r"," ","m","e","n","t","i","o","n","s",":"," ">>

STR_Risk_keywords == <<"R","i","s","k"," ","k","e","y","w","o","r","d","s",":"," ">>

STR_Product_related == <<"P","r","o","d","u","c","t","-","r","e","l","a","t","e","d",":"," ">>

STR_Sensitive_topics == <<"S","e","n","s","i","t","i","v","e"," ","t","o","p","i","c","s",":"," ">>

STR_Industry_mention == <<"I","n","d","u","s","t","r","y"," ","m","e","n","t","i","o","n",":"," ">>

STR_No_direct_relevance == <<"N","o"," ","d","i","r","e","c","t"," ","r","e","l","e","v","a","n","c","e"," ","f","o","u","n","d">>

STR_Company == <<"C","o","m","p","a","n","y",":"," ">>

STR_No_clear_relevance == <<"N","o"," ","c","l","e","a","r"," ","r","e","l","e","v","a","n","c","e">>

\* ../../knowledge/company.json as the scrapers read it.
STR_tablets == <<"t","a","b","l","e","t","s">>

STR_iPad == <<"i","P","a","d">>

KB ==
    [ company          |-> [ name         |-> STR_Apple,
                             stock_symbol |-> STR_AAPL,
                             industry     |-> STR_Technology ],
      risk_keywords    |-> KB_Apple.risk_keywords,
      competitors      |-> << [name |-> STR_Samsung, stock_symbol |-> STR_SSNLF] >>,
      product_keywords |-> KB_Apple.product_keywords
                           \o << <<STR_tablets, <<STR_iPad>> >> >>,
      sensitive_topics |-> KB_Apple.sensitive_topics ]

COMPANY_NAME == KB.company.name

STOCK_SYMBOL == KB.company.stock_symbol

INDUSTRY == KB.company.industry

COMPETITORS == [i \in 1..Len(KB.competitors) |-> KB.competitors[i].name]

COMPETITOR_SYMBOLS ==
    [i \in 1..Len(KB.competitors) |-> KB.competitors[i].stock_symbol]

\* sum(KB["risk_keywords"].values(), [])
RISK_KEYWORDS ==
    Concat([i \in 1..Len(KB.risk_keywords) |-> KB.risk_keywords[i][2]])

PRODUCT_TERMS ==
    Concat([i \in 1..Len(KB.product_keywords) |-> KB.product_keywords[i][2]])

SENSITIVE_TOPICS == KB.sensitive_topics

\* [w for w in words if w.lower() in combined]
FoundIn(words, combined) == SelectSeq(words, LAMBDA w : In(lower(w), combined))

\* finance_crawler.analyze_relevance, lines 278-298.
analyze_relevance(text, title) ==
    LET combined_text == lower(title \o STR_SPACE \o text)
        competitor_mentions == FoundIn(COMPETITORS, combined_text)
        found == SelectSeq([i \in 1..Len(COMPETITORS) |-> i],
                     LAMBDA i : In(lower(COMPETITORS[i]), combined_text))
        symbols == [k \in 1..Len(found) |-> COMPETITOR_SYMBOLS[found[k]]]
    IN  [ company_match       |-> \/ In(lower(COMPANY_NAME), combined_text)
                                  \/ In(lower(STOCK_SYMBOL), combined_text),
          competitor_mentions |-> competitor_mentions,
          stock_mentions      |->
              AppendNew(IF In(lower(STOCK_SYMBOL), combined_text)
                        THEN <<STOCK_SYMBOL>> ELSE <<>>, symbols),
          risk_tags_detected  |-> FoundIn(RISK_KEYWORDS, combined_text),
          product_terms       |-> FoundIn(PRODUCT_TERMS, combined_text),
          sensitive_hits      |-> FoundIn(SENSITIVE_TOPICS, combined_text) ]

\* industry_scraper.analyze_relevance, lines 283-314.
industry_analyze_relevance(text, title) ==
    LET combined == lower(title \o STR_SPACE \o text)
    IN  [ company_match       |-> \/ In(lower(COMPANY_NAME), combined)
                                  \/ In(lower(STOCK_SYMBOL), combined),
          competitor_mentions |-> FoundIn(COMPETITORS, combined),
          stock_mentions      |->
              FoundIn(COMPETITOR_SYMBOLS, combined)
              \o (IF In(lower(STOCK_SYMBOL), combined) THEN <<STOCK_SYMBOL>> ELSE <<>>),
          risk_tags_detected  |-> FoundIn(RISK_KEYWORDS, combined),
          product_terms       |-> FoundIn(PRODUCT_TERMS, combined),
          sensitive_hits      |-> FoundIn(SENSITIVE_TOPICS, combined) ]

\* reasons.append(...) under a condition.
ReasonIf(cond, reason) == IF cond THEN <<reason>> ELSE <<>>

\* finance_crawler.is_relevant, lines 303-330: the pair it returns.
is_relevant(analysis, text) ==
    LET reasons ==
            ReasonIf(analysis.company_match, STR_Direct_mention \o COMPANY_NAME)
            \o ReasonIf(Truthy(analysis.competitor_mentions),
                   STR_Competitor_mentions
                   \o Join(STR_COMMA_SPACE, analysis.competitor_mentions))
            \o ReasonIf(Truthy(analysis.risk_tags_detected),
                   STR_Risk_keywords
                   \o Join(STR_COMMA_SPACE, Slice(analysis.risk_tags_detected, 3)))
            \o ReasonIf(Truthy(analysis.product_terms),
                   STR_Product_related
                   \o Join(STR_COMMA_SPACE, Slice(analysis.product_terms, 3)))
            \o ReasonIf(Truthy(analysis.sensitive_hits),
                   STR_Sensitive_topics
                   \o Join(STR_COMMA_SPACE, analysis.sensitive_hits))
            \o ReasonIf(In(lower(INDUSTRY), lower(text)),
                   STR_Industry_mention \o INDUSTRY)
    IN  [ relevant |-> \/ analysis.company_match
                       \/ Len(analysis.competitor_mentions) > 0,
          reason   |-> IF Truthy(reasons) THEN Join(STR_BAR, reasons)
                       ELSE STR_No_direct_relevance ]

\* industry_scraper.is_relevant, lines 319-338.
industry_is_relevant(analysis, text) ==
    LET reasons ==
            ReasonIf(analysis.company_match, STR_Company \o COMPANY_NAME)
            \o ReasonIf(Truthy(analysis.competitor_mentions),
                   STR_Competitor_mentions
                   \o Join(STR_COMMA_SPACE, analysis.competitor_mentions))
            \o ReasonIf(Truthy(analysis.risk_tags_detected),
                   STR_Risk_keywords
                   \o Join(STR_COMMA_SPACE, Slice(analysis.risk_tags_detected, 3)))
            \o ReasonIf(Truthy(analysis.product_terms),
                   STR_Product_related
                   \o Join(STR_COMMA_SPACE, Slice(analysis.product_terms, 2)))
    IN  [ relevant |-> \/ analysis.company_match
                       \/ Len(analysis.competitor_mentions) > 0,
          reason   |-> IF Truthy(reasons) THEN Join(STR_BAR, reasons)
                       ELSE STR_No_clear_relevance ]

\* Python None, as a return value.
None == [none |-> TRUE]

\* content_text[:5000]
ContentLimit == 5000

\* Lines 372-387 of finance_crawler.py, 377-392 of industry_scraper.py.
ArticleJson(fetched, analysis, rel) ==
    [ title                |-> fetched.title,
      content_text         |-> Slice(fetched.content_text, ContentLimit),
      related_to_company   |-> rel.relevant,
      reason_for_relevance |-> rel.reason,
      risk_tags_detected   |-> analysis.risk_tags_detected,
      competitor_mentions  |-> analysis.competitor_mentions,
      stock_mentions       |-> analysis.stock_mentions ]

FetchFailed == [failed |-> TRUE]

\* finance_crawler.scrape_article, lines 335-393.
scrape_article(fetched) ==
    IF fetched = FetchFailed THEN None
    ELSE IF ~fetched.within_time_window THEN None
    ELSE LET analysis == analyze_relevance(fetched.content_text, fetched.title)
             rel == is_relevant(analysis, fetched.content_text)
         IN  IF ~rel.relevant THEN None ELSE ArticleJson(fetched, analysis, rel)

\* industry_scraper.scrape_article, lines 343-398.
industry_scrape_article(fetched) ==
    IF fetched = FetchFailed THEN None
    ELSE IF ~fetched.within_time_window THEN None
    ELSE LET analysis == industry_analyze_relevance(fetched.content_text,
                                                    fetched.title)
             rel == industry_is_relevant(analysis, fetched.content_text)
         IN  IF rel.relevant THEN ArticleJson(fetched, analysis, rel) ELSE None

TEXT_WEATHER == <<"r","a","i","n"," ","i","s"," ","d","u","e">>

TEXT_COMPANY == <<"a","p","p","l","e"," ","g","a","i","n","s">>

TEXT_TICKER == <<"a","a","p","l"," ","u","p">>

TEXT_COMPETITOR == <<"S","A","M","S","U","N","G"," ","g","a","i","n","s">>

TEXT_RISK == <<"a"," ","L","a","w","s","u","i","t"," ","a","n","d"," ","a"," ","f","i","n","e">>

TEXT_PRODUCT == <<"n","e","w"," ","i","p","h","o","n","e">>

TEXT_SENSITIVE == <<"a"," ","D","a","t","a"," ","B","r","e","a","c","h">>

TEXT_INDUSTRY == <<"t","e","c","h","n","o","l","o","g","y"," ","w","e","e","k">>

TEXT_MARGINAL == <<"t","e","c","h","n","o","l","o","g","y",":"," ","i","p","h","o","n","e"," ","l","a","w","s","u","i","t",","," ","a","n","t","i","t","r","u","s","t"," ","f","i","n","e"," ","a","f","t","e","r"," ","d","a","t","a"," ","b","r","e","a","c","h">>

TEXT_ALL == <<"A","p","p","l","e"," ","a","n","d"," ","S","a","m","s","u","n","g"," ","i","n"," ","t","e","c","h","n","o","l","o","g","y",":"," ","i","p","h","o","n","e"," ","l","a","w","s","u","i","t"," ","a","f","t","e","r"," ","d","a","t","a"," ","b","r","e","a","c","h">>

TEXT_PRODUCTS == <<"n","e","w"," ","i","P","a","d",","," ","n","e","w"," ","i","P","h","o","n","e">>

PageTexts ==
    { STR_EMPTY, TEXT_WEATHER, TEXT_COMPANY, TEXT_TICKER, TEXT_COMPETITOR,
      TEXT_RISK, TEXT_PRODUCT, TEXT_PRODUCTS, TEXT_SENSITIVE, TEXT_INDUSTRY, TEXT_MARGINAL,
      TEXT_ALL }

PageTitles == {STR_EMPTY, STR_Samsung, STR_Technology}

Pages ==
    {FetchFailed} \cup
    { [title |-> t, content_text |-> c, within_time_window |-> w] :
        t \in PageTitles, c \in PageTexts, w \in BOOLEAN }

Scrapers == {"finance_crawler", "industry_scraper"}

InitScrape ==
    /\ scorer = RiskScorer(KB)
    /\ hashOrder \in AgentHashOrders
    /\ phase = "idle"
    /\ article = NoArticle
    /\ result = NoResult
    /\ seen = NoArticle
    /\ calc = NoCalc
    /\ agent = NoAgent
    /\ files = NoFiles
    /\ returned = NoReturn
    /\ page \in Pages

\* is_relevant(analysis, content_text) on the analysis of the page, as
\* scrape_article calls it.
IsRelevant(scraper) ==
    /\ page # FetchFailed
    /\ returned' =
          [ op |-> "is_relevant", scraper |-> scraper,
            value |-> IF scraper = "finance_crawler"
                      THEN is_relevant(analyze_relevance(page.content_text, page.title),
                                       page.content_text)
                      ELSE industry_is_relevant(
                               industry_analyze_relevance(page.content_text,
                                                          page.title),
                               page.content_text) ]
    /\ UNCHANGED <<scorer, hashOrder, phase, article, result, seen, calc, agent,
                   files, page>>

\* scrape_article(url) on the page the url serves.
ScrapeArticle(scraper) ==
    /\ returned' =
          [ op |-> "scrape_article", scraper |-> scraper,
            value |-> IF scraper = "finance_crawler" THEN scrape_article(page)
                      ELSE industry_scrape_article(page) ]
    /\ UNCHANGED <<scorer, hashOrder, phase, article, result, seen, calc, agent,
                   files, page>>

STR_Risk_with_context == <<"R","i","s","k"," ","k","e","y","w","o","r","d","s"," ","w","i","t","h"," ","c","o","m","p","a","n","y"," ","c","o","n","t","e","x","t",":"," ">>

STR_No_relevance_to_company == <<"N","o"," ","d","i","r","e","c","t"," ","r","e","l","e","v","a","n","c","e"," ","t","o"," ","c","o","m","p","a","n","y">>

\* Mutant: one product term is enough.
is_relevant_to_company_once(text, title) ==
    LET combined_text == lower(title \o STR_SPACE \o text)
        competitors_found == FoundIn(COMPETITORS, combined_text)
        product_matches == FoundIn(PRODUCT_TERMS, combined_text)
    IN  IF In(lower(COMPANY_NAME), combined_text)
           \/ In(lower(STOCK_SYMBOL), combined_text)
        THEN [relevant |-> TRUE, reason |-> STR_Direct_mention \o COMPANY_NAME]
        ELSE IF Truthy(competitors_found)
        THEN [ relevant |-> TRUE,
               reason |-> STR_Competitor_mentions
                          \o Join(STR_COMMA_SPACE, competitors_found) ]
        ELSE IF In(lower(INDUSTRY), combined_text)
        THEN [relevant |-> TRUE, reason |-> STR_Industry_mention \o INDUSTRY]
        ELSE IF Len(product_matches) >= 1
        THEN [ relevant |-> TRUE,
               reason |-> STR_Product_related
                          \o Join(STR_COMMA_SPACE, Slice(product_matches, 3)) ]
        ELSE [relevant |-> FALSE, reason |-> STR_No_relevance_to_company]

\* finance_crawler.is_relevant_to_company, lines 112-139: the pair it
\* returns.
is_relevant_to_company(text, title) ==
    LET combined_text == lower(title \o STR_SPACE \o text)
        competitors_found == FoundIn(COMPETITORS, combined_text)
        product_matches == FoundIn(PRODUCT_TERMS, combined_text)
        risk_matches == FoundIn(RISK_KEYWORDS, combined_text)
    IN  IF In(lower(COMPANY_NAME), combined_text)
           \/ In(lower(STOCK_SYMBOL), combined_text)
        THEN [relevant |-> TRUE, reason |-> STR_Direct_mention \o COMPANY_NAME]
        ELSE IF Truthy(competitors_found)
        THEN [ relevant |-> TRUE,
               reason |-> STR_Competitor_mentions
                          \o Join(STR_COMMA_SPACE, competitors_found) ]
        ELSE IF In(lower(INDUSTRY), combined_text)
        THEN [relevant |-> TRUE, reason |-> STR_Industry_mention \o INDUSTRY]
        ELSE IF Len(product_matches) >= 2
        THEN [ relevant |-> TRUE,
               reason |-> STR_Product_related
                          \o Join(STR_COMMA_SPACE, Slice(product_matches, 3)) ]
        ELSE IF Truthy(risk_matches)
                /\ (\/ In(lower(COMPANY_NAME), combined_text)
                    \/ \E i \in 1..Len(COMPETITORS) :
                          In(lower(COMPETITORS[i]), combined_text))
        THEN [ relevant |-> TRUE,
               reason |-> STR_Risk_with_context
                          \o Join(STR_COMMA_SPACE, Slice(risk_matches, 3)) ]
        ELSE [relevant |-> FALSE, reason |-> STR_No_relevance_to_company]

\* is_relevant_to_company(content_text, title) on the page.
IsRelevantToCompany ==
    /\ page # FetchFailed
    /\ returned' = [ op |-> "is_relevant_to_company",
                     value |-> is_relevant_to_company(page.content_text,
                                                      page.title) ]
    /\ UNCHANGED <<scorer, hashOrder, phase, article, result, seen, calc, agent,
                   files, page>>

NextScrape ==
    \/ IsRelevantToCompany
    \/ \E s \in Scrapers : IsRelevant(s)
    \/ \E s \in Scrapers : ScrapeArticle(s)

SpecScrape == InitScrape /\ [][NextScrape]_vars

\* The lowercased title and text of the page hold the lowercased word.
Mentions(word) ==
    In(lower(word), lower(page.title \o STR_SPACE \o page.content_text))

MentionsAny(words) == \E i \in 1..Len(words) : Mentions(words[i])

\* The page names the company, its ticker or a competitor.
AboutCompany ==
    Mentions(COMPANY_NAME) \/ Mentions(STOCK_SYMBOL) \/ MentionsAny(COMPETITORS)

\* C17: is_relevant of a scraper returns true exactly when the page names
\* the company, its ticker or a competitor; a match of a risk keyword, a
\* product keyword, a sensitive topic or the industry is named in the reason
\* string and decides nothing; and scrape_article returns an article only
\* for a page that is relevant in that sense.
C17_StrictRelevance ==
    /\ (returned # NoReturn /\ returned.op = "is_relevant") =>
          /\ returned.value.relevant = AboutCompany
          /\ MentionsAny(RISK_KEYWORDS) => In(STR_Risk_keywords, returned.value.reason)
          /\ MentionsAny(PRODUCT_TERMS) => In(STR_Product_related, returned.value.reason)
          /\ MentionsAny(SENSITIVE_TOPICS) =>
                In(STR_Sensitive_topics, returned.value.reason)
          /\ In(lower(INDUSTRY), lower(page.content_text)) =>
                In(STR_Industry_mention, returned.value.reason)
    /\ (returned # NoReturn /\ returned.op = "scrape_article"
        /\ returned.value # None) => AboutCompany

(***************************************************************************)
(* The scenarios of test_single_article: positive earnings, regulatory     *)
(* risk                                                                    *)
(***************************************************************************)
\* company.json whose regulatory keywords are listed again under a later
\* category.
KB_Overlap ==
    [ company          |-> [name |-> STR_Apple],
      risk_keywords    |-> << <<STR_regulatory,
                                <<STR_Antitrust, STR_lawsuit, STR_fine>> >>,
                              <<STR_competitive,
                                <<STR_Antitrust, STR_lawsuit, STR_fine>> >> >>,
      competitors      |-> << [name |-> STR_Samsung] >>,
      product_keywords |-> << <<STR_phones, <<STR_iPhone>> >> >> ]

ScenarioKnowledgeBases == {KB_Apple, KB_Overlap}

\* Articles of the two scenarios, with and without the scraper's hints.
ScenarioArticles ==
    { Restrict([source |-> STR_Reuters, content_text |-> c, sentiment |-> s,
                risk_tags_detected |-> r, competitor_mentions |-> m],
               {"source", "content_text"} \cup ks) :
        c \in {BODY_NEG, BODY_POS, BODY_PLAIN},
        s \in {STR_negative, STR_Positive},
        r \in { <<STR_recall>>, <<STR_recall, STR_shortage>> },
        m \in { <<STR_Samsung, STR_Samsung>> },
        ks \in SUBSET {"sentiment", "risk_tags_detected", "competitor_mentions"} }

InitScenarios ==
    /\ \E kb \in ScenarioKnowledgeBases :
          /\ scorer = RiskScorer(kb)
          /\ hashOrder \in HashOrders(CategoryNames(kb))
    /\ phase = "idle"
    /\ article = NoArticle
    /\ result = NoResult
    /\ seen = NoArticle
    /\ calc = NoCalc
    /\ agent = NoAgent
    /\ files = NoFiles
    /\ returned = NoReturn
    /\ page = NoPage

NextScenarios ==
    \/ \E a \in ScenarioArticles : Call(a)
    \/ AnalyzeArticle

SpecScenarios == InitScenarios /\ [][NextScenarios]_vars

CategoryKeywordsIn(self, cat, art) ==
    LET text_lower == lower(FullText(art))
        lists == { self.risk_keywords[c][2] :
                     c \in {c \in 1..Len(self.risk_keywords) :
                              self.risk_keywords[c][1] = cat} }
    IN  { kw \in UNION { {lower(l[k]) : k \in 1..Len(l)} : l \in lists } :
            In(kw, text_lower) }

\* C19: a NORMAL article with final sentiment score <= -0.5 whose text
\* contains at least three keywords of the knowledge base's regulatory
\* category has "regulatory" in risk_category and risk_score > 0.6.
C19_RegulatoryHighRisk ==
    (/\ Returned
     /\ IsNormal(result)
     /\ Geq(<<-1, 2>>, FinalSentiment(article).score)
     /\ Cardinality(CategoryKeywordsIn(scorer, STR_regulatory, article)) >= 3)
        => /\ InList(STR_regulatory, result["risk_analysis"].risk_category)
           /\ result["risk_analysis"].risk_score > 60

WordsText(g, p, u) ==
    Join(STR_SPACE, Slice(negative_words, g) \o Slice(positive_words, p)
                    \o Slice(neutral_words, u))

BODY_SUBSTRINGS == <<"S","t","a","r","t","u","p"," ","I","S","S","U","E"," ","r","e","m","a","i","n","s">>

BODY_REPEAT == <<"l","o","s","s",","," ","L","o","s","s"," ","a","n","d"," ","L","O","S","S"," ","b","u","t"," ","a"," ","g","a","i","n">>

\* Texts without a lexicon word, with words inside other words, with a word
\* repeated, and with few to all of the words of each list.
SentimentTexts ==
    { WordsText(g, p, u) :
        g \in {0, 1, 3, 26, Len(negative_words)},
        p \in {0, 1, 2, 17, Len(positive_words)},
        u \in {0, 1, Len(neutral_words)} }
    \cup {BODY_PLAIN, BODY_SUBSTRINGS, BODY_REPEAT}

SentimentArticles ==
    { [source |-> STR_Reuters, content_text |-> t] :
        t \in SentimentTexts \ {STR_EMPTY} }

InitSentiment ==
    /\ scorer = RiskScorer(KB_Apple)
    /\ hashOrder \in AgentHashOrders
    /\ phase = "idle"
    /\ article = NoArticle
    /\ result = NoResult
    /\ seen = NoArticle
    /\ calc = NoCalc
    /\ agent = NoAgent
    /\ files = NoFiles
    /\ returned = NoReturn
    /\ page = NoPage

\* _calculate_sentiment(text)
CalculateSentiment(text) ==
    /\ calc = NoCalc
    /\ article = NoArticle
    /\ calc' = [ pending |-> FALSE,
                 op      |-> "_calculate_sentiment",
                 text    |-> text,
                 value   |-> calculate_sentiment(text) ]
    /\ UNCHANGED <<scorer, hashOrder, phase, article, result, seen, agent, files,
                   returned, page>>

NextSentiment ==
    \/ \E t \in SentimentTexts : CalculateSentiment(t)
    \/ \E a \in SentimentArticles : calc = NoCalc /\ Call(a)
    \/ AnalyzeArticle

SpecSentiment == InitSentiment /\ [][NextSentiment]_vars

\* _calculate_sentiment has returned for calc.text.
SentimentReturned == ~calc.pending /\ calc.op = "_calculate_sentiment"

\* The number of distinct words of a lexicon list contained in the
\* lowercased text.
DistinctIn(words, text) ==
    Cardinality({w \in {words[i] : i \in 1..Len(words)} : In(w, lower(text))})

\* C22: _calculate_sentiment returns (neutral, 0.0) when no lexicon word
\* occurs; otherwise score = (pos - neg) / (pos + neg + neutral), each count
\* the number of distinct lexicon words that are substrings of the
\* lowercased text, and the label is negative iff score < -0.2, positive iff
\* score > 0.2, neutral otherwise.
C22_SentimentFormula ==
    SentimentReturned =>
        LET neg == DistinctIn(negative_words, calc.text)
            pos == DistinctIn(positive_words, calc.text)
            neu == DistinctIn(neutral_words, calc.text)
            total == pos + neg + neu
            v == calc.value
        IN  IF total = 0
            THEN v.label = STR_neutral /\ v.score[1] = 0
            ELSE /\ v.score[1] * total = (pos - neg) * v.score[2]
                 /\ v.label = STR_negative <=> 5 * (pos - neg) < -total
                 /\ v.label = STR_positive <=> 5 * (pos - neg) > total
                 /\ v.label = STR_neutral
                      <=> (5 * (pos - neg) >= -total /\ 5 * (pos - neg) <= total)

\* C22 witness: a text with words of all three lists, one of them inside
\* another word, scored negative.
C22_Witness ==
    /\ SentimentReturned
    /\ calc.text = BODY_SUBSTRINGS
    /\ calc.value.label = STR_negative
    /\ 4 * calc.value.score[1] = -calc.value.score[2]

\* C29: in a NORMAL result computed without a sentiment hint the reported
\* label agrees with the reported two-decimal score: negative iff the score
\* is below -0.2, positive iff it is above 0.2, neutral otherwise.
C29_LabelAgreesWithReported ==
    (/\ Returned
     /\ IsNormal(result)
     /\ "sentiment" \notin DOMAIN article)
        => LET ra == result["risk_analysis"]
           IN  /\ ra.sentiment_label = STR_negative <=> ra.sentiment_score < -20
               /\ ra.sentiment_label = STR_positive <=> ra.sentiment_score > 20
               /\ ra.sentiment_label = STR_neutral
                    <=> (ra.sentiment_score >= -20 /\ ra.sentiment_score <= 20)

\* The number of entries of list equal to x without regard to case.
CountOf(x, list) ==
    Cardinality({i \in 1..Len(list) : lower(list[i]) = lower(x)})

\* C23: after the hints are merged, the matched list holds no hinted keyword
\* twice (case-insensitively): a risk-tag hint is there once, and each
\* competitor hint at most once, as the token "competitor: X" and not as a
\* plain keyword of its own.
C23_HintsMergedOnce ==
    (Returned /\ IsNormal(result)) =>
        LET matched == result["risk_analysis"].matched_keywords
            tags == Get(article, "risk_tags_detected", <<>>)
            competitors == Get(article, "competitor_mentions", <<>>)
            local == match_keywords(scorer, hashOrder, FullText(article)).matched
        IN  /\ \A i \in 1..Len(tags) : CountOf(tags[i], matched) = 1
            /\ \A i \in 1..Len(competitors) :
                  /\ CountOf(STR_competitor_prefix \o competitors[i], matched) <= 1
                  /\ (~InList(lower(competitors[i]), LowerAll(local \o tags))
                        => CountOf(competitors[i], matched) = 0)

RECURSIVE FirstDetected(_, _)
\* The distinct elements of a list in the order of their first occurrence.
FirstDetected(list, acc) ==
    IF list = <<>> THEN acc
    ELSE FirstDetected(Tail(list),
             IF InList(list[1], acc) THEN acc ELSE Append(acc, list[1]))

\* The category list in the order of first detection: the categories of the
\* locally matched risk keywords in keyword-index order, then "sensitive",
\* then the categories the risk-tag hints add.
ClaimedCategories(self, art) ==
    LET text_lower == lower(FullText(art))
        riskHits == SelectSeq(self.all_risk_keywords,
                              LAMBDA p : In(p[1], text_lower))
        sens == IF \E i \in 1..Len(self.sensitive_keywords) :
                      In(self.sensitive_keywords[i], text_lower)
                THEN <<STR_sensitive>> ELSE <<>>
        local == FirstDetected([i \in 1..Len(riskHits) |-> riskHits[i][2]] \o sens,
                               <<>>)
    IN  MergeRiskTags(self, Get(art, "risk_tags_detected", <<>>),
                      [matched |-> <<>>, categories |-> local]).categories

\* C24: in every NORMAL result risk_category is a list of distinct names
\* among the five fixed categories, in the order of first detection.
C24_CategoriesFirstDetected ==
    (Returned /\ IsNormal(result)) =>
        LET cats == result["risk_analysis"].risk_category
        IN  /\ \A i, j \in 1..Len(cats) : i # j => cats[i] # cats[j]
            /\ \A i \in 1..Len(cats) : InList(cats[i], RiskCategoryNames)
            /\ cats = ClaimedCategories(scorer, article)

(***************************************************************************)
(* _generate_summary as a function of its text                             *)
(***************************************************************************)
PIECE_19 == <<"A","p","p","l","e"," ","e","v","e","n","t"," ","i","s"," ","b","a","c","k",".">>

PIECE_20 == <<"A","p","p","l","e"," ","e","v","e","n","t"," ","i","s"," ","t","o","d","a","y","!">>

PIECE_21 == <<" ","A","p","p","l","e"," ","e","v","e","n","t"," ","w","a","s"," ","t","o","d","a","y"," ","?">>

PIECE_SHORT == <<" ","Y","e","s",".",".",".">>

PIECE_OPEN == <<"a","n","d"," ","t","h","e"," ","n","e","w"," ","i","P","h","o","n","e"," ","s","o","l","d"," ","w","e","l","l"," ">>

SummaryPieces == {PIECE_19, PIECE_20, PIECE_21, PIECE_SHORT, PIECE_OPEN}

BODY_FIVE == <<"F","i","r","s","t"," ","s","e","n","t","e","n","c","e"," ","o","f"," ","t","h","e"," ","r","e","p","o","r","t","."," ","S","e","c","o","n","d"," ","s","e","n","t","e","n","c","e"," ","o","f"," ","t","h","e"," ","r","e","p","o","r","t","!"," ","T","h","i","r","d"," ","s","e","n","t","e","n","c","e"," ","o","f"," ","t","h","e"," ","r","e","p","o","r","t","?"," ","F","o","u","r","t","h"," ","s","e","n","t","e","n","c","e"," ","o","f"," ","t","h","e"," ","r","e","p","o","r","t","."," ","F","i","f","t","h"," ","s","e","n","t","e","n","c","e"," ","o","f"," ","t","h","e"," ","r","e","p","o","r","t",".">>

\* Four sentences of 150 characters each.
BODY_LONG ==
    Pad(150) \o STR_DOT \o Pad(150) \o STR_DOT \o Pad(150) \o STR_DOT \o Pad(150)

\* Texts of one to three pieces, five sentences, and more than 500
\* characters of sentences.
SummaryTexts ==
    { Concat(ps) : ps \in UNION { [1..n -> SummaryPieces] : n \in 1..3 } }
    \cup {STR_EMPTY, BODY_FIVE, BODY_LONG}

InitSummary ==
    /\ scorer = RiskScorer(KB_Empty)
    /\ hashOrder = <<STR_sensitive>>
    /\ phase = "idle"
    /\ article = NoArticle
    /\ result = NoResult
    /\ seen = NoArticle
    /\ calc = NoCalc
    /\ agent = NoAgent
    /\ files = NoFiles
    /\ returned = NoReturn
    /\ page = NoPage

\* _generate_summary(text)
GenerateSummary(text) ==
    /\ calc = NoCalc
    /\ calc' = [ pending |-> FALSE,
                 op      |-> "_generate_summary",
                 text    |-> text,
                 value   |-> generate_summary(text) ]
    /\ UNCHANGED <<scorer, hashOrder, phase, article, result, seen, agent, files,
                   returned, page>>

NextSummary == \E t \in SummaryTexts : GenerateSummary(t)

SpecSummary == InitSummary /\ [][NextSummary]_vars

\* The first max_sentences fragments of the text whose trimmed length is at
\* least min, joined with ". ".
JoinedFragments(text, min) ==
    Join(STR_DOT_SPACE,
         Slice(SelectSeq(SplitSentences(text), LAMBDA s : Len(s) >= min),
               max_sentences))

\* s begins with the whole of prefix.
StartsWith(s, prefix) ==
    Len(prefix) <= Len(s) /\ SubSeq(s, 1, Len(prefix)) = prefix

\* C25: _generate_summary splits on . ! ?, discards only the fragments of
\* trimmed length under 20 (one of exactly 20 is kept), joins the first 4
\* survivors in their order with ". ", and returns at most 500 characters.
C25_SummaryFragments ==
    (~calc.pending /\ calc.op = "_generate_summary") =>
        /\ Len(calc.value) <= SummaryLimit
        /\ StartsWith(calc.value,
                      Slice(JoinedFragments(calc.text, MinSentenceLen), SummaryLimit))

STR_reason_no_content == <<"n","o"," ","c","o","n","t","e","n","t">>

\* How many of the words the page mentions.
MentionCount(words) == Cardinality({i \in 1..Len(words) : Mentions(words[i])})

\* C26: is_relevant_to_company returns relevant exactly when the lowercased
\* title and body contain the company name or ticker, or a competitor name,
\* or the industry name, or at least 2 product keywords, or a risk keyword
\* together with a company or competitor mention; the reason is that of the
\* first of these rules, in this order, that matches.
C26_LenientRelevance ==
    (returned # NoReturn /\ returned.op = "is_relevant_to_company") =>
        LET v == returned.value
            direct == Mentions(COMPANY_NAME) \/ Mentions(STOCK_SYMBOL)
            competitor == MentionsAny(COMPETITORS)
            industry == Mentions(INDUSTRY)
            products == MentionCount(PRODUCT_TERMS) >= 2
            risk == MentionsAny(RISK_KEYWORDS)
                    /\ (Mentions(COMPANY_NAME) \/ competitor)
        IN  /\ v.relevant = (direct \/ competitor \/ industry \/ products \/ risk)
            /\ direct => StartsWith(v.reason, STR_Direct_mention)
            /\ (~direct /\ competitor) => StartsWith(v.reason, STR_Competitor_mentions)
            /\ (~direct /\ ~competitor /\ industry)
                  => StartsWith(v.reason, STR_Industry_mention)
            /\ (~direct /\ ~competitor /\ ~industry /\ products)
                  => StartsWith(v.reason, STR_Product_related)
            /\ (~direct /\ ~competitor /\ ~industry /\ ~products /\ risk)
                  => StartsWith(v.reason, STR_Risk_with_context)

\* C26 witness: a page relevant only by its two product keywords.
C26_Witness ==
    /\ returned # NoReturn
    /\ returned.op = "is_relevant_to_company"
    /\ ~AboutCompany
    /\ ~Mentions(INDUSTRY)
    /\ MentionCount(PRODUCT_TERMS) = 2
    /\ returned.value.relevant
    /\ StartsWith(returned.value.reason, STR_Product_related)

\* C27: for a page with empty title and empty body the relevance classifier
\* returns not relevant with a reason that says "no content".
C27_EmptyNoContent ==
    (/\ returned # NoReturn
     /\ returned.op \in {"is_relevant_to_company", "is_relevant"}
     /\ page.title = STR_EMPTY
     /\ page.content_text = STR_EMPTY)
        => /\ ~returned.value.relevant
           /\ In(STR_reason_no_content, lower(returned.value.reason))

\* The number of articles process_all_news reads from the directory.
RECURSIVE ArticlesRead(_, _)
ArticlesRead(dir, i) ==
    IF i > Len(dir) THEN 0
    ELSE (IF dir[i].exists /\ dir[i].readable THEN Len(dir[i].articles) ELSE 0)
         + ArticlesRead(dir, i + 1)

\* C28: after every call of process_all_news on an agent, repeated calls
\* included, processed_count is the number of entries of agent.results, and
\* the call counts, processed and skipped together, no more articles than it
\* read.
C28_CountersMatchResults ==
    [][ agent' # agent =>
          /\ agent'.processed_count = Len(agent'.results)
          /\ (agent'.processed_count + agent'.skipped_count)
               - (agent.processed_count + agent.skipped_count)
             <= ArticlesRead(files, 1) ]_vars

\* C30: every execution of run_pipeline ends by returning True or False and
\* lets no exception out, also when news files exist but no article is
\* scored, so that every scheduled run of job completes with a status.
C30_PipelineAlwaysReturns ==
    /\ (returned # NoReturn /\ returned.op = "run_pipeline")
          => /\ ~returned.outcome.raises
             /\ returned.outcome.value \in BOOLEAN
    /\ (returned # NoReturn /\ returned.op = "job")
          => /\ returned.outcome.completed
             /\ ~returned.outcome.pipeline.raises
             /\ returned.outcome.pipeline.value \in BOOLEAN

====
